---- MODULE Spec2Model ----
(***************************************************************************)
(* MADE MCP server: the index manager (build / load / import / export of   *)
(* the token and component indexes), the token and story parsers it        *)
(* drives, the persisted artifacts under ./data, and the server front-end  *)
(* that answers queries from the loaded indexes.                           *)
(*                                                                         *)
(* JavaScript objects and arrays have identity: they live in `heap`, and   *)
(* the fields of the index manager hold references into it, so that the    *)
(* sharing created by `[...this.tokens]` (a new array of the same objects) *)
(* and by `this.tokens = data.tokens` (the caller's own array) is visible. *)
(* Every `await` of an async method is a suspension point: the method is   *)
(* cut into one action per stretch of code between two awaits that changes *)
(* the state.                                                              *)
(***************************************************************************)
EXTENDS Integers, Sequences, FiniteSets, TLC

\* ------------------------------------------------------------------ bounds
MaxBuilds == 1   \* buildIndexes calls in one behaviour (the clock new Date() reads)
MaxImports == 1  \* importIndexes calls in one behaviour
MaxFiles == 2    \* token source files found in one repository tree
MaxStories == 2  \* story files found in one repository tree
MaxFaults == 1   \* writes the filesystem fails in one behaviour
MaxMutations == 1  \* changes a caller makes to the results it holds, in one behaviour

\* ------------------------------------------------------------- the heap
NullRef == 0                       \* null (indexMeta: IndexMeta | null)

\* index-manager.ts 51-58: the IndexMeta object literal
MetaObj(ref, commit, time, cc, tc) ==
    [k |-> "meta", version |-> "1.0.0", upstreamCommit |-> commit, upstreamRef |-> ref,
     buildTime |-> time, componentsCount |-> cc, tokensCount |-> tc]
\* part_005 505-516 / 530-541: the MADEComponent object literal (src: the story file it came from)
CmpObj(name, src) == [k |-> "cmp", name |-> name, src |-> src]
ArrObj(elems) == [k |-> "arr", e |-> elems]
NoMeta == [k |-> "null"]

\* the heap is the sequence of the live objects; a reference is a position in it
NewId(h) == Len(h) + 1
\* a new object
Alloc(h, cell) == Append(h, cell)

\* allocate one cell per element of `cells`; the new heap and the references, in order
RECURSIVE AllocAll(_, _)
AllocAll(h, cells) ==
    IF cells = <<>> THEN [h |-> h, ids |-> <<>>]
    ELSE LET i == NewId(h)
             r == AllocAll(Alloc(h, Head(cells)), Tail(cells))
         IN [h |-> r.h, ids |-> <<i>> \o r.ids]

\* a new array holding new objects, one per element of `cells`
AllocArray(h, cells) ==
    LET r == AllocAll(h, cells)
        a == NewId(r.h)
    IN [h |-> Alloc(r.h, ArrObj(r.ids)), id |-> a]

\* [...arr]: a new array holding the same objects
CopyArray(h, a) ==
    [h |-> Alloc(h, ArrObj(h[a].e)), id |-> NewId(h)]

\* the objects an array holds, by value
DeepArr(h, a) == [i \in 1..Len(h[a].e) |-> h[h[a].e[i]]]
DeepRef(h, r) == IF r = NullRef THEN NoMeta ELSE h[r]

RECURSIVE SeqToSet(_)
SeqToSet(s) == IF s = <<>> THEN {} ELSE {Head(s)} \cup SeqToSet(Tail(s))

\* ------------------------------------------------------------- the state
Mgrs == {"script", "server"}   \* build-index.ts 28 and copilot-test-prompts.md 460: new IndexManager()

VARIABLES
    heap,         \* the objects: reference -> object
    tokens,       \* IndexManager.tokens, per manager: reference to an array of tokens
    components,   \* IndexManager.components, per manager: reference to an array of components
    indexMeta,    \* IndexManager.indexMeta, per manager: reference to a meta object, or null
    disk,         \* ./data/indexes/{index-meta,tokens,components}.json and ./data/cache/search-index.json
    dirOk,        \* whether ./data can be created and written (fs.ensureDir succeeds)
    cacheDir,     \* whether ./data/cache exists
    op,           \* the IndexManager call in progress and its position, or idle
    last,         \* the most recent IndexManager call that returned or raised
    clock,        \* number of builds so far: what new Date() reads
    imports,      \* number of imports so far
    muts,         \* number of changes the caller has made to what it holds
    initialized,  \* MADEMCPServer.initialized
    srv,          \* the server's initialize(): its position, whether a call of it has returned
                  \* (ok), whether one has raised, and the lists it gave to the search
                  \* engine and to the scaffolder, as they were given
    reply,        \* what the latest query or accessor call gave its caller
    held,         \* an earlier result that the caller has kept
    faults        \* number of writes the filesystem will still fail

\* the heap and every variable that holds references into it
objs == <<heap, tokens, components, indexMeta, reply, held>>
vars == <<heap, tokens, components, indexMeta, initialized, srv, reply, held, disk, dirOk, cacheDir, op, last, clock, imports, muts, faults>>

\* what the three accessors of manager m show, by value
View(m) == [tokens     |-> DeepArr(heap, tokens[m]),
            components |-> DeepArr(heap, components[m]),
            meta       |-> DeepRef(heap, indexMeta[m])]

EmptyView == [tokens |-> <<>>, components |-> <<>>, meta |-> NoMeta]

\* A result in the caller's hands: the call (kind, arg), how it ended (out), the references
\* it returned, and two records of the moment of the call: whether an initialize() had
\* returned by then (ready) and the manager it read (m); total and filtered are the counts
\* of a listTokens result's meta, msg the message of the error raised, scaffolded the
\* component the scaffolder was called with, if it was, checks and info the body of a
\* healthCheck or version response, input and body the argument and the response of a call
\* made to a parser, the scaffolder, the search engine or the linter; stale says that this manager has
\* had a field assigned (by a build, a load or an import) or has shown something else since,
\* touched that the caller has changed something in the result.
NoReply == [kind |-> "none", arg |-> "", out |-> "", ready |-> FALSE, m |-> "server",
            tokens |-> NullRef, components |-> NullRef, meta |-> NullRef,
            total |-> 0, filtered |-> 0, msg |-> <<>>, scaffolded |-> <<>>,
            checks |-> <<>>, info |-> <<>>, input |-> <<>>, body |-> <<>>,
            stale |-> FALSE, touched |-> FALSE]

\* every reference the program holds, in a fixed order
RootSeq(tk, cp, im, rp, hd) ==
    <<tk["script"], cp["script"], im["script"], tk["server"], cp["server"], im["server"],
      rp.tokens, rp.components, rp.meta, hd.tokens, hd.components, hd.meta>>

\* the cells reachable from `todo`, each once, in the order a walk from the roots meets them
RECURSIVE Visit(_, _, _)
Visit(h, todo, seen) ==
    IF todo = <<>> THEN seen
    ELSE LET r == Head(todo)
         IN IF r = NullRef \/ (\E k \in 1..Len(seen) : seen[k] = r) THEN Visit(h, Tail(todo), seen)
            ELSE IF h[r].k = "arr" THEN Visit(h, h[r].e \o Tail(todo), Append(seen, r))
            ELSE Visit(h, Tail(todo), Append(seen, r))

\* where i stands in the sequence, 0 when it does not
RECURSIVE Index(_, _, _)
Index(seq, i, p) == IF p > Len(seq) THEN 0 ELSE IF seq[p] = i THEN p ELSE Index(seq, i, p + 1)

\* The step's new heap and references. A reference is an identity, not an address: the
\* cells nothing refers to are collected and the live ones are numbered in the order of the
\* walk, so that two states which differ only in where objects lie are the same state.
Commit(h0, tk, cp, im, rp0, hd0) ==
    \E h \in {h0}, rp \in {rp0}, hd \in {hd0} :
    \E order \in {Visit(h, RootSeq(tk, cp, im, rp, hd), <<>>)} :
    \E pos \in {[i \in 0..Len(h) |-> Index(order, i, 1)]} :
       LET cell(c) == IF c.k = "arr" THEN ArrObj([j \in 1..Len(c.e) |-> pos[c.e[j]]]) ELSE c
           changed == {m \in Mgrs :
                         \/ <<tk[m], cp[m], im[m]>> # <<tokens[m], components[m], indexMeta[m]>>
                         \/ <<DeepArr(h, tk[m]), DeepArr(h, cp[m]), DeepRef(h, im[m])>>
                              # <<View(m).tokens, View(m).components, View(m).meta>>}
       IN /\ heap' = [i \in 1..Len(order) |-> cell(h[order[i]])]
          /\ tokens' = [m \in Mgrs |-> pos[tk[m]]]
          /\ components' = [m \in Mgrs |-> pos[cp[m]]]
          /\ indexMeta' = [m \in Mgrs |-> pos[im[m]]]
          /\ reply' = [rp EXCEPT !.tokens = pos[@], !.components = pos[@], !.meta = pos[@],
                                 !.stale = @ \/ rp.m \in changed]
          /\ held' = [hd EXCEPT !.tokens = pos[@], !.components = pos[@], !.meta = pos[@],
                                !.stale = @ \/ hd.m \in changed]

\* a persisted artifact: absent, unreadable, or holding a JSON value
Absent(dflt) == [st |-> "absent", v |-> dflt]
Corrupt(dflt) == [st |-> "corrupt", v |-> dflt]
Json(v) == [st |-> "ok", v |-> v]
NoCache == [components |-> <<>>, tokens |-> <<>>]
DiskEmpty == [meta |-> Absent(NoMeta), tokens |-> Absent(<<>>),
              components |-> Absent(<<>>), cache |-> Absent(NoCache)]

\* op: the call in progress. pc is its position; pre is the dataset the manager showed when
\* the call started; ref/commit are the build's arguments; stage/nfiles/npath are the position
\* of the file loops; ptokens and pcomps are CSSParser.tokens and StorybookParser.components
\* of the parsers the build created; decl and stories record what the tree held so far,
\* bad how many of its files failed to parse.
Idle == [kind |-> "idle", m |-> "script", pc |-> "", caller |-> "", pre |-> EmptyView,
         ref |-> "", commit |-> "", stage |-> 0, nfiles |-> 0, npath |-> 0,
         ptokens |-> <<>>, pcomps |-> <<>>, decl |-> {}, nstories |-> 0, bad |-> 0]
NoCall == [kind |-> "none", m |-> "script", status |-> "", caller |-> "", failed |-> FALSE,
           cause |-> ""]

\* the record of a call that just ended, for `last`; failed says that a failure was caught
\* or raised inside the call, cause what a raised call raised
Ended(o, status, failed) ==
    [kind |-> o.kind, m |-> o.m, status |-> status, caller |-> o.caller, failed |-> failed,
     cause |-> ""]

\* index-manager.ts 9-11: a new IndexManager holds two empty arrays and no meta; the
\* processes start over one of the given contents of ./data
Start(disks) ==
    /\ LET a == AllocAll(<<>>, <<ArrObj(<<>>), ArrObj(<<>>), ArrObj(<<>>), ArrObj(<<>>)>>)
       IN /\ heap = a.h
          /\ tokens = [m \in Mgrs |-> IF m = "script" THEN a.ids[1] ELSE a.ids[3]]
          /\ components = [m \in Mgrs |-> IF m = "script" THEN a.ids[2] ELSE a.ids[4]]
    /\ indexMeta = [m \in Mgrs |-> NullRef]
    /\ initialized = FALSE
    /\ srv = [pc |-> "idle", ok |-> FALSE, raised |-> FALSE,
              engine |-> [components |-> <<>>, tokens |-> <<>>], scaffolder |-> <<>>]
    /\ reply = NoReply
    /\ held = NoReply
    /\ disk \in disks
    /\ dirOk \in BOOLEAN
    /\ cacheDir \in BOOLEAN
    /\ op = Idle
    /\ last = NoCall
    /\ clock = 0
    /\ imports = 0
    /\ muts = 0
    /\ faults \in 0..MaxFaults

\* nothing has been built yet
Init == Start({DiskEmpty})

\* ---------------------------------------------------------- loadIndexes
\* index-manager.ts 15-19: the call starts and awaits fs.ensureDir
LoadBegin(m, caller) ==
    /\ op.kind = "idle"
    /\ op' = [Idle EXCEPT !.kind = "load", !.m = m, !.pc = "ensureDir", !.caller = caller,
                          !.pre = View(m)]
    /\ UNCHANGED <<objs, initialized, srv, disk, dirOk, cacheDir, last, clock, imports, muts, faults>>

\* index-manager.ts 30-33: any failure is caught and logged; the call returns
LoadCaught ==
    /\ last' = Ended(op, "ok", TRUE)
    /\ op' = Idle

\* index-manager.ts 17-18: both directories are ensured (a failure goes to the catch)
LoadEnsureDir ==
    /\ op.kind = "load" /\ op.pc = "ensureDir"
    /\ IF dirOk THEN op' = [op EXCEPT !.pc = "meta"] /\ cacheDir' = TRUE /\ UNCHANGED last
       ELSE LoadCaught /\ UNCHANGED cacheDir
    /\ UNCHANGED <<objs, initialized, srv, disk, dirOk, clock, imports, muts, faults>>

\* index-manager.ts 208-213: loadIndexMeta
LoadIndexMeta ==
    /\ op.kind = "load" /\ op.pc = "meta"
    /\ CASE disk.meta.st = "absent" ->
              /\ op' = [op EXCEPT !.pc = "tokens"]
              /\ UNCHANGED <<objs, last>>
         [] disk.meta.st = "corrupt" ->
              /\ LoadCaught
              /\ UNCHANGED objs
         [] OTHER ->
              LET i == NewId(heap)
              IN /\ Commit(Alloc(heap, disk.meta.v), tokens, components,
                           [indexMeta EXCEPT ![op.m] = i], reply, held)
                 /\ op' = [op EXCEPT !.pc = "tokens"]
                 /\ UNCHANGED last
    /\ UNCHANGED <<initialized, srv, disk, dirOk, cacheDir, clock, imports, muts, faults>>

\* index-manager.ts 215-220: loadTokens
LoadTokens ==
    /\ op.kind = "load" /\ op.pc = "tokens"
    /\ CASE disk.tokens.st = "absent" ->
              /\ op' = [op EXCEPT !.pc = "components"]
              /\ UNCHANGED <<objs, last>>
         [] disk.tokens.st = "corrupt" ->
              /\ LoadCaught
              /\ UNCHANGED objs
         [] OTHER ->
              LET a == AllocArray(heap, disk.tokens.v)
              IN /\ Commit(a.h, [tokens EXCEPT ![op.m] = a.id], components, indexMeta, reply, held)
                 /\ op' = [op EXCEPT !.pc = "components"]
                 /\ UNCHANGED last
    /\ UNCHANGED <<initialized, srv, disk, dirOk, cacheDir, clock, imports, muts, faults>>

\* index-manager.ts 222-227 and 29: loadComponents, after which the call returns
LoadComponents ==
    /\ op.kind = "load" /\ op.pc = "components"
    /\ CASE disk.components.st = "absent" ->
              /\ last' = Ended(op, "ok", FALSE)
              /\ op' = Idle
              /\ UNCHANGED objs
         [] disk.components.st = "corrupt" ->
              /\ LoadCaught
              /\ UNCHANGED objs
         [] OTHER ->
              LET a == AllocArray(heap, disk.components.v)
              IN /\ Commit(a.h, tokens, [components EXCEPT ![op.m] = a.id], indexMeta, reply, held)
                 /\ last' = Ended(op, "ok", FALSE)
                 /\ op' = Idle
    /\ UNCHANGED <<initialized, srv, disk, dirOk, cacheDir, clock, imports, muts, faults>>

\* ------------------------------------------------- the repository tree
\* A custom property --made-a is the word sequence <<"made", "a">>.
\* A stylesheet declaration: property, value, and the selector of its rule.
Decl(prop, value, sel) == [prop |-> prop, value |-> value, sel |-> sel]
\* An entry of a token JSON file: a camelCase key cut at its capitals, and a value
Entry(key, value, isString) == [prop |-> key, value |-> value, sel |-> IF isString THEN "string" ELSE "other"]

\* token source files, as the build finds them: kind "vars" (cssVariablePaths and
\* cssTokenPaths), "json" (jsonTokenPaths), "main" (mainCSSPaths); err is the failure
\* reading or parsing the file raises, if any
CssA    == [kind |-> "vars", err |-> "none", decls |-> <<Decl(<<"made", "a">>, "1", ":root")>>]
CssDup  == [kind |-> "vars", err |-> "none",
            decls |-> <<Decl(<<"made", "a">>, "1", ":root"), Decl(<<"made", "a">>, "2", ":root")>>]
CssMix  == [kind |-> "vars", err |-> "none",
            decls |-> <<Decl(<<"brand", "x">>, "1", ":root"), Decl(<<"made", "b">>, "1", ".theme")>>]
CssBad  == [kind |-> "vars", err |-> "property missing", decls |-> <<>>]
JsonAB  == [kind |-> "json", err |-> "none",
            decls |-> <<Entry(<<"made", "A">>, "2", TRUE), Entry(<<"Made", "B">>, "1", TRUE)>>]
JsonMix == [kind |-> "json", err |-> "none",
            decls |-> <<Entry(<<"Made", "Color">>, "red", TRUE), Entry(<<"Made", "B">>, "1", TRUE)>>]
JsonBad == [kind |-> "json", err |-> "Unexpected token", decls |-> <<>>]
MainCss == [kind |-> "main", err |-> "none", decls |-> <<>>]
MainBad == [kind |-> "main", err |-> "missing '}'", decls |-> <<>>]
TokenFiles == {CssA, CssDup, CssMix, CssBad, JsonAB, JsonMix, JsonBad, MainCss, MainBad}

\* story files, as findStoryFiles returns them (sorted by path, no path twice)
Story(path, name, examples, err) == [path |-> path, name |-> name, examples |-> examples, err |-> err]
StoryFiles == {Story(1, "Button", 1, FALSE), Story(2, "Button", 2, FALSE),
               Story(3, "Card", 1, FALSE), Story(4, "Empty", 0, FALSE), Story(5, "", 0, TRUE)}

\* the files of the trees the builds of Spec run on
SpecTokenFiles == {CssA, CssDup, JsonAB, CssBad}
SpecStoryFiles == {Story(1, "Button", 1, FALSE), Story(3, "Card", 1, FALSE)}
Refs == {"main"}
Commits == {"abc123"}

\* -------------------------------------------------------------- strings
\* A string of the program is a TLA+ string, a sequence of characters: Len, \o and SubSeq
\* are its length, concatenation and substring. Names are kept as sequences of words and
\* joined before a test on their characters is made.
\* String.prototype.substring, counting from 1 and with both ends inside: what lies
\* outside the string is left out
Substring(s, m, n) == SubSeq(s, IF m < 1 THEN 1 ELSE m, IF n > Len(s) THEN Len(s) ELSE n)
\* String.prototype.charAt, counting from 1
At(s, i) == Substring(s, i, i)

\* Array.prototype.join
RECURSIVE Join(_, _)
Join(ws, sep) ==
    IF ws = <<>> THEN ""
    ELSE IF Len(ws) = 1 THEN ws[1]
    ELSE ws[1] \o sep \o Join(Tail(ws), sep)

\* the words of a name joined by hyphens: <<"made", "btn">> is made-btn
Str(ws) == Join(ws, "-")

\* String.prototype.includes
Includes(s, sub) == \E i \in 1..(Len(s) - Len(sub) + 1) : SubSeq(s, i, i + Len(sub) - 1) = sub
\* String.prototype.startsWith
StartsWith(s, pre) == Len(pre) <= Len(s) /\ SubSeq(s, 1, Len(pre)) = pre

\* the lower-case letter of each capital
LowerCase ==
    [c \in {At("ABCDEFGHIJKLMNOPQRSTUVWXYZ", k) : k \in 1..26} |->
       At("abcdefghijklmnopqrstuvwxyz",
          CHOOSE k \in 1..26 : At("ABCDEFGHIJKLMNOPQRSTUVWXYZ", k) = c)]

\* String.prototype.toLowerCase
RECURSIVE ToLowerCase(_)
ToLowerCase(s) ==
    IF s = "" THEN ""
    ELSE IF Len(s) = 1 THEN (IF s \in DOMAIN LowerCase THEN LowerCase[s] ELSE s)
    ELSE ToLowerCase(Substring(s, 1, Len(s) \div 2))
         \o ToLowerCase(Substring(s, Len(s) \div 2 + 1, Len(s)))

\* ------------------------------------------------------------ CSSParser
\* part_005 261-267: convertToCSSVariable (MadeColorPrimary500 -> --made-color-primary-500)
convertToCSSVariable(key) == [i \in 1..Len(key) |-> ToLowerCase(key[i])]

\* categorizeToken with the spacing rule tested before the colour rule
categorizeToken_spacingFirst(tokenName) ==
    LET name == ToLowerCase("--" \o Str(tokenName))
        has(w) == Includes(name, w)
        digit(i) == i >= 1 /\ At(name, i) \in {"0", "1", "2", "3", "4", "5", "6", "7", "8", "9"}
        end == Len(name)
        \* name.match(/\d+(-x)?$/)
        endsInNumber == digit(end) \/ (digit(end - 2) /\ SubSeq(name, end - 1, end) = "-x")
        colourName == \E w \in {"red", "blue", "green", "yellow", "orange", "purple", "gray",
                                "grey", "white", "black", "teal", "gold"} : has(w)
    IN IF \/ has("space") \/ has("spacing") \/ has("padding") \/ has("margin") \/ has("gap")
          \/ has("size") /\ endsInNumber
       THEN "spacing"
       ELSE IF \/ has("color") \/ has("bg") \/ has("background") \/ has("border")
               \/ has("text") /\ (has("color") \/ colourName)
       THEN "color"
       ELSE IF \/ has("font") \/ has("text") \/ has("line-height") \/ has("letter-spacing")
               \/ has("weight")
       THEN "typography"
       ELSE IF has("shadow") \/ has("drop-shadow") \/ has("elevation") THEN "shadow"
       ELSE IF has("radius") \/ has("border-radius") \/ has("rounded") THEN "radius"
       ELSE IF \/ has("time") \/ has("duration") \/ has("transition") \/ has("animation")
               \/ has("slow") \/ has("fast") \/ has("moderate")
       THEN "time"
       ELSE IF has("z-index") \/ has("zindex") \/ has("layer") THEN "other"
       ELSE IF has("breakpoint") \/ has("screen") \/ has("container") \/ has("viewport")
       THEN "breakpoint"
       ELSE "other"

\* part_005 312-360: categorizeToken; a name <<"made", "a">> is the property --made-a
categorizeToken(tokenName) ==
    LET name == ToLowerCase("--" \o Str(tokenName))
        has(w) == Includes(name, w)
        digit(i) == i >= 1 /\ At(name, i) \in {"0", "1", "2", "3", "4", "5", "6", "7", "8", "9"}
        end == Len(name)
        \* name.match(/\d+(-x)?$/)
        endsInNumber == digit(end) \/ (digit(end - 2) /\ SubSeq(name, end - 1, end) = "-x")
        colourName == \E w \in {"red", "blue", "green", "yellow", "orange", "purple", "gray",
                                "grey", "white", "black", "teal", "gold"} : has(w)
    IN IF \/ has("color") \/ has("bg") \/ has("background") \/ has("border")
          \/ has("text") /\ (has("color") \/ colourName)
       THEN "color"
       ELSE IF \/ has("space") \/ has("spacing") \/ has("padding") \/ has("margin") \/ has("gap")
               \/ has("size") /\ endsInNumber
       THEN "spacing"
       ELSE IF \/ has("font") \/ has("text") \/ has("line-height") \/ has("letter-spacing")
               \/ has("weight")
       THEN "typography"
       ELSE IF has("shadow") \/ has("drop-shadow") \/ has("elevation") THEN "shadow"
       ELSE IF has("radius") \/ has("border-radius") \/ has("rounded") THEN "radius"
       ELSE IF \/ has("time") \/ has("duration") \/ has("transition") \/ has("animation")
               \/ has("slow") \/ has("fast") \/ has("moderate")
       THEN "time"
       ELSE IF has("z-index") \/ has("zindex") \/ has("layer") THEN "other"
       ELSE IF has("breakpoint") \/ has("screen") \/ has("container") \/ has("viewport")
       THEN "breakpoint"
       ELSE "other"

\* part_005 216-221 and 244-249: the token a declaration yields
Token(name, value) == [k |-> "tok", name |-> name, value |-> value, category |-> categorizeToken(name)]

RECURSIVE SelectSeq2(_, _)
\* Array.prototype.filter
SelectSeq2(s, keep) ==
    IF s = <<>> THEN <<>>
    ELSE (IF Head(s) \in keep THEN <<Head(s)>> ELSE <<>>) \o SelectSeq2(Tail(s), keep)

Names(toks) == {toks[i].name : i \in 1..Len(toks)}

\* part_005 228-231 and 255-258: merge with the existing tokens, avoiding duplicates
MergeTokens(existing, found) ==
    existing \o SelectSeq2(found, {t \in SeqToSet(found) : t.name \notin Names(existing)})

\* part_005 196-232: extractCSSVariables: the --made- declarations of the :root rules
extractCSSVariables(existing, decls) ==
    LET made == {d \in SeqToSet(decls) : d.sel = ":root" /\ Head(d.prop) = "made"}
        kept == SelectSeq2(decls, made)
    IN MergeTokens(existing, [i \in 1..Len(kept) |-> Token(kept[i].prop, kept[i].value)])

\* part_005 234-259: extractJSONTokens: every string-valued key
extractJSONTokens(existing, entries) ==
    LET strs == {d \in SeqToSet(entries) : d.sel = "string"}
        kept == SelectSeq2(entries, strs)
    IN MergeTokens(existing,
                   [i \in 1..Len(kept) |-> Token(convertToCSSVariable(kept[i].prop), kept[i].value)])

\* part_005 153-194: parseMadeCSSVariables / parseMadeTokensJSON / parseMadeCSS on one file:
\* CSSParser.tokens afterwards (a file that fails to parse leaves them as they were)
ParseTokenFile(existing, f) ==
    CASE f.err # "none" -> existing
      [] f.kind = "vars" -> extractCSSVariables(existing, f.decls)
      [] f.kind = "json" -> extractJSONTokens(existing, f.decls)
      [] OTHER -> existing

\* index-manager.ts 111-175: the order of the four file loops
KindRank(kind) == CASE kind = "vars" -> 1 [] kind = "json" -> 2 [] OTHER -> 3

\* part_005 485-545: parseStoryFile: a story with a name and an example adds a component
ParseStoryFile(existing, s) ==
    IF ~s.err /\ s.name # "" /\ s.examples > 0
    THEN Append(existing, CmpObj(s.name, s.path))
    ELSE existing

\* --------------------------------------------------------- buildIndexes
\* what the tree declared: the token names a successfully parsed file yields
DeclaredBy(f) == Names(ParseTokenFile(<<>>, f))

\* a build that merges: nothing is cleared and the parser starts from the tokens in memory
BuildBegin_merge(m, ref, commit) ==
    /\ op.kind = "idle"
    /\ clock < MaxBuilds
    /\ op' = [Idle EXCEPT !.kind = "build", !.m = m, !.pc = "css", !.caller = "direct",
                          !.pre = View(m), !.ref = ref, !.commit = commit, !.stage = 1,
                          !.ptokens = View(m).tokens]
    /\ UNCHANGED <<objs, initialized, srv, disk, dirOk, cacheDir, last, clock, imports, muts, faults>>

\* index-manager.ts 36-45 and 70-112: the call starts, clears the dataset, creates the
\* token parser and awaits the first fs.pathExists
BuildBegin(m, ref, commit) ==
    /\ op.kind = "idle"
    /\ clock < MaxBuilds
    /\ LET t == NewId(heap)
           c == t + 1
       IN Commit(Alloc(Alloc(heap, ArrObj(<<>>)), ArrObj(<<>>)),
                 [tokens EXCEPT ![m] = t], [components EXCEPT ![m] = c], indexMeta, reply, held)
    /\ op' = [Idle EXCEPT !.kind = "build", !.m = m, !.pc = "css", !.caller = "direct",
                          !.pre = View(m), !.ref = ref, !.commit = commit, !.stage = 1]
    /\ UNCHANGED <<initialized, srv, disk, dirOk, cacheDir, last, clock, imports, muts, faults>>

\* index-manager.ts 111-175: one found file is parsed (a failure is logged and skipped)
BuildParseFile(f) ==
    /\ op.kind = "build" /\ op.pc = "css"
    /\ op.nfiles < MaxFiles
    /\ KindRank(f.kind) >= op.stage
    /\ op' = [op EXCEPT !.ptokens = ParseTokenFile(op.ptokens, f),
                        !.stage = KindRank(f.kind), !.nfiles = op.nfiles + 1,
                        !.decl = op.decl \cup DeclaredBy(f),
                        !.bad = IF f.err # "none" THEN op.bad + 1 ELSE op.bad]
    /\ UNCHANGED <<objs, initialized, srv, disk, dirOk, cacheDir, last, clock, imports, muts, faults>>

\* index-manager.ts 177: this.tokens = cssParser.getTokens()
BuildSetTokens ==
    /\ op.kind = "build" /\ op.pc = "css"
    /\ LET a == AllocArray(heap, op.ptokens)
       IN Commit(a.h, [tokens EXCEPT ![op.m] = a.id], components, indexMeta, reply, held)
    /\ op' = [op EXCEPT !.pc = "stories"]
    /\ UNCHANGED <<initialized, srv, disk, dirOk, cacheDir, last, clock, imports, muts, faults>>

\* index-manager.ts 64-67: the failure is logged and raised again
RaiseOf(cause) ==
    /\ last' = [Ended(op, "raised", TRUE) EXCEPT !.cause = cause]
    /\ op' = Idle
\* a filesystem operation of the call failed
Raise == RaiseOf("fs")

\* part_005 451 and 464-466: findStoryFiles fails, parseStories raises, and so does the build
BuildScanFails ==
    /\ op.kind = "build" /\ op.pc = "stories" /\ op.npath = 0 /\ op.pcomps = <<>>
    /\ RaiseOf("scan")
    /\ UNCHANGED <<objs, initialized, srv, disk, dirOk, cacheDir, clock, imports, muts, faults>>

\* a parseStories without the try around parseStoryFile: a failing story file ends the build
BuildParseStory_strict(s) ==
    /\ op.kind = "build" /\ op.pc = "stories"
    /\ op.nstories < MaxStories
    /\ s.path > op.npath
    /\ IF s.err THEN RaiseOf("parse")
       ELSE /\ op' = [op EXCEPT !.pcomps = ParseStoryFile(op.pcomps, s), !.npath = s.path,
                                !.nstories = op.nstories + 1]
            /\ UNCHANGED last
    /\ UNCHANGED <<objs, initialized, srv, disk, dirOk, cacheDir, clock, imports, muts, faults>>

\* part_005 455-461: one story file is parsed (a failure is logged and skipped)
BuildParseStory(s) ==
    /\ op.kind = "build" /\ op.pc = "stories"
    /\ op.nstories < MaxStories
    /\ s.path > op.npath
    /\ op' = [op EXCEPT !.pcomps = ParseStoryFile(op.pcomps, s), !.npath = s.path,
                        !.nstories = op.nstories + 1,
                        !.bad = IF s.err THEN op.bad + 1 ELSE op.bad]
    /\ UNCHANGED <<objs, initialized, srv, disk, dirOk, cacheDir, last, clock, imports, muts, faults>>

\* index-manager.ts 205: this.components = storybookParser.getComponents()
BuildSetComponents ==
    /\ op.kind = "build" /\ op.pc = "stories"
    /\ LET a == AllocArray(heap, op.pcomps)
       IN Commit(a.h, tokens, [components EXCEPT ![op.m] = a.id], indexMeta, reply, held)
    /\ op' = [op EXCEPT !.pc = "meta"]
    /\ UNCHANGED <<initialized, srv, disk, dirOk, cacheDir, last, clock, imports, muts, faults>>

\* index-manager.ts 50-61 and 230: the meta record is created; saveIndexes starts
BuildSetMeta ==
    /\ op.kind = "build" /\ op.pc = "meta"
    /\ LET i == NewId(heap)
           meta == MetaObj(op.ref, op.commit, clock + 1,
                           Len(heap[components[op.m]].e), Len(heap[tokens[op.m]].e))
       IN Commit(Alloc(heap, meta), tokens, components,
                 [indexMeta EXCEPT ![op.m] = i], reply, held)
    /\ clock' = clock + 1
    /\ op' = [op EXCEPT !.pc = "saveDir"]
    /\ UNCHANGED <<initialized, srv, disk, dirOk, cacheDir, last, imports, muts, faults>>

\* ---------------------------------------------------------- saveIndexes
\* fs.writeJSON: the artifact holds the value; or the write fails, leaving the file as it
\* was or cut short
WriteOutcomes(file, dflt, v) ==
    {[ok |-> TRUE, f |-> Json(v)]}
    \cup (IF faults > 0
          THEN {[ok |-> FALSE, f |-> file], [ok |-> FALSE, f |-> Corrupt(dflt)]} ELSE {})
Fault(w) == faults' = IF w.ok THEN faults ELSE faults - 1

\* index-manager.ts 230: fs.ensureDir(indexDir)
SaveEnsureDir ==
    /\ op.kind \in {"build", "import"} /\ op.pc = "saveDir"
    /\ IF dirOk THEN op' = [op EXCEPT !.pc = "saveMeta"] /\ UNCHANGED last
       ELSE Raise
    /\ UNCHANGED <<objs, initialized, srv, disk, dirOk, cacheDir, clock, imports, muts, faults>>

\* index-manager.ts 232-239: the meta is written, when there is one
SaveMeta ==
    /\ op.kind \in {"build", "import"} /\ op.pc = "saveMeta"
    /\ IF indexMeta[op.m] = NullRef
       THEN op' = [op EXCEPT !.pc = "saveTokens"] /\ UNCHANGED <<disk, last, faults>>
       ELSE \E w \in WriteOutcomes(disk.meta, NoMeta, heap[indexMeta[op.m]]) :
              /\ disk' = [disk EXCEPT !.meta = w.f]
              /\ Fault(w)
              /\ IF w.ok THEN op' = [op EXCEPT !.pc = "saveTokens"] /\ UNCHANGED last
                 ELSE Raise
    /\ UNCHANGED <<objs, initialized, srv, dirOk, cacheDir, clock, imports, muts>>

\* index-manager.ts 241-246
SaveTokens ==
    /\ op.kind \in {"build", "import"} /\ op.pc = "saveTokens"
    /\ \E w \in WriteOutcomes(disk.tokens, <<>>, DeepArr(heap, tokens[op.m])) :
          /\ disk' = [disk EXCEPT !.tokens = w.f]
          /\ Fault(w)
          /\ IF w.ok THEN op' = [op EXCEPT !.pc = "saveComponents"] /\ UNCHANGED last
             ELSE Raise
    /\ UNCHANGED <<objs, initialized, srv, dirOk, cacheDir, clock, imports, muts>>

\* index-manager.ts 248-253
SaveComponents ==
    /\ op.kind \in {"build", "import"} /\ op.pc = "saveComponents"
    /\ \E w \in WriteOutcomes(disk.components, <<>>, DeepArr(heap, components[op.m])) :
          /\ disk' = [disk EXCEPT !.components = w.f]
          /\ Fault(w)
          /\ IF w.ok THEN op' = [op EXCEPT !.pc = "saveCache"] /\ UNCHANGED last
             ELSE Raise
    /\ UNCHANGED <<objs, initialized, srv, dirOk, cacheDir, clock, imports, muts>>

\* String.prototype.toLowerCase on the component names used here
LowerName(n) == CASE n = "Button" -> "button" [] n = "BUTTON" -> "button"
                  [] n = "Card" -> "card" [] n = "cARD" -> "card" [] n = "Nope" -> "nope"
                  [] n = "Alert" -> "alert" [] n = "Badge" -> "badge"
                  [] OTHER -> n

\* index-manager.ts 261-279: the search cache: the lower-case names of the components and
\* of the tokens
SearchIndex(m) ==
    [components |-> [i \in 1..Len(heap[components[m]].e) |->
                        LowerName(heap[heap[components[m]].e[i]].name)],
     tokens     |-> [i \in 1..Len(heap[tokens[m]].e) |-> heap[heap[tokens[m]].e[i]].name]]

\* index-manager.ts 255-258 and 280-284: the search cache is written (the cache directory
\* is not created here) and the call returns
SaveCache ==
    /\ op.kind \in {"build", "import"} /\ op.pc = "saveCache"
    /\ IF ~cacheDir THEN Raise /\ UNCHANGED <<disk, faults>>
       ELSE \E w \in WriteOutcomes(disk.cache, NoCache, SearchIndex(op.m)) :
              /\ disk' = [disk EXCEPT !.cache = w.f]
              /\ Fault(w)
              /\ IF w.ok THEN last' = Ended(op, "ok", op.bad > 0) /\ op' = Idle
                 ELSE Raise
    /\ UNCHANGED <<objs, initialized, srv, dirOk, cacheDir, clock, imports, muts>>

\* ------------------------------------------------------------ MarkupLinter
\* An element as cheerio's load gives it: its tag, the classes of its class attribute (none:
\* no attribute), its text, the names of its other attributes ("labelled": a label points
\* at its id), and the custom properties its style refers to
El(tag, classes, text, attrs, uses) ==
    [tag |-> tag, classes |-> classes, text |-> text, attrs |-> attrs, uses |-> uses]
\* what load(html) yields for the markup used here, in document order (the html, head and
\* body elements cheerio adds hold nothing the rules look at)
Parsed(html) ==
    CASE html = "" -> <<>>
      [] html = "<<>invalid</>tags>" -> <<>>
      [] html = "<button>" -> <<El("button", <<>>, "", {}, <<>>)>>
      [] html = "<button>Unclosed button" -> <<El("button", <<>>, "Unclosed button", {}, <<>>)>>
      [] html = "<div><span>Nested unclosed</div>" ->
            <<El("div", <<>>, "Nested unclosed", {}, <<>>), El("span", <<>>, "Nested unclosed", {}, <<>>)>>
      [] html = "<button onclick=\"alert()\">Security risk</button>" ->
            <<El("button", <<>>, "Security risk", {"onclick"}, <<>>)>>
      [] html = "<nav><button class=\"made-btn made-btn-primary\">Go</button></nav>" ->
            <<El("nav", <<>>, "Go", {}, <<>>),
              El("button", <<"made-btn", "made-btn-primary">>, "Go", {}, <<>>)>>
      [] html = "<a class=\"btn\" style=\"color: var(--brand-x)\">here</a>" ->
            <<El("a", <<"btn">>, "here", {"style"}, <<"--brand-x">>)>>
      [] html = "<main style=\"gap: var(--made-b)\"><img class=\"card\"></main>" ->
            <<El("main", <<>>, "", {"style"}, <<"--made-b">>), El("img", <<"card">>, "", {}, <<>>)>>
Markups ==
    {"", "<<>invalid</>tags>", "<button>", "<button>Unclosed button",
     "<div><span>Nested unclosed</div>", "<button onclick=\"alert()\">Security risk</button>",
     "<nav><button class=\"made-btn made-btn-primary\">Go</button></nav>",
     "<a class=\"btn\" style=\"color: var(--brand-x)\">here</a>",
     "<main style=\"gap: var(--made-b)\"><img class=\"card\"></main>"}

\* markup-linter.ts 63-96 and 97-372: lint(html) of a linter initialized with the tokens
\* toks; fails says that load(html) throws. The issues are <<type, message>> records.
lint(html, toks, fails) ==
    LET Issue(type, message) == [type |-> type, message |-> message]
        If(cond, issue) == IF cond THEN <<issue>> ELSE <<>>
        has(s, sub) == Includes(s, sub)
        \* 20-61: buildMadeClassesSet
        madeClasses ==
          {"made-btn", "made-button", "made-card", "made-alert", "made-modal", "made-input",
           "made-form", "made-textarea", "made-nav", "made-navbar", "made-menu", "made-grid",
           "made-container", "made-row", "made-col", "made-text", "made-heading", "made-title",
           "made-badge", "made-tag", "made-chip", "made-icon", "made-avatar", "made-image",
           "p-0", "p-1", "p-2", "p-3", "p-4", "p-5", "m-0", "m-1", "m-2", "m-3", "m-4", "m-5",
           "pt-", "pb-", "pl-", "pr-", "px-", "py-", "mt-", "mb-", "ml-", "mr-", "mx-", "my-",
           "text-primary", "text-secondary", "text-success", "text-warning", "text-error",
           "bg-primary", "bg-secondary", "bg-light", "bg-dark",
           "text-xs", "text-sm", "text-base", "text-lg", "text-xl",
           "font-normal", "font-medium", "font-semibold", "font-bold",
           "text-left", "text-center", "text-right",
           "flex", "grid", "block", "inline", "hidden", "w-full", "h-full", "w-auto", "h-auto",
           "border", "border-0", "rounded", "rounded-sm", "rounded-lg"}
        \* 112-113: the class attribute cut at the two characters \s: it stays whole, and a
        \* whole attribute of several classes is none of the known classes
        known(classes) == Len(classes) = 1 /\ classes[1] \in madeClasses
        \* 373-392: isUtilityClass (the patterns written with \\d and \\w match no class
        \* without a backslash)
        isUtilityClass(classes) ==
            \/ Len(classes) = 1
               /\ classes[1] \in {"text-left", "text-center", "text-right", "text-justify",
                                  "text-xs", "text-sm", "text-base", "text-lg", "text-xl",
                                  "border", "rounded", "flex", "grid", "shadow"}
            \/ known(classes)
        made(classes) == StartsWith(classes[1], "made-")
        \* 139-166: checkMADEClasses
        checkMADEClasses(e) ==
            LET attr == IF e.classes = <<>> THEN <<>> ELSE <<e.classes>>
                found == SelectSeq(attr, LAMBDA c : made(c) \/ known(c) \/ isUtilityClass(c))
            IN If(/\ Len(attr) > 0
                  /\ found = <<>>
                  /\ e.tag \in {"button", "input", "textarea", "select", "nav", "card", "modal"},
                  Issue("warning", "Element doesn't use MADE classes"))
               \o [i \in 1..Len(SelectSeq(attr, LAMBDA c : made(c) /\ ~known(c) /\ ~isUtilityClass(c)))
                     |-> Issue("info", "Unknown MADE class")]
        \* 168-199: checkCSSVariables
        RECURSIVE checkCSSVariables(_)
        checkCSSVariables(uses) ==
            IF uses = <<>> THEN <<>>
            ELSE (IF ~StartsWith((Head(uses)), "--made-")
                  THEN <<Issue("warning", "Non-MADE CSS variable used")>>
                  ELSE If(~\E i \in 1..Len(toks) : "--" \o Str(toks[i].name) = (Head(uses)),
                          Issue("error", "Unknown MADE token")))
                 \o checkCSSVariables(Tail(uses))
        some(e, subs) == \E i \in 1..Len(e.classes), sub \in subs : has(e.classes[i], sub)
        \* 201-225: lintButton
        lintButton(e) ==
            If(~some(e, {"btn", "button"}), Issue("warning", "Button element should use MADE button classes"))
            \o If("type" \notin e.attrs /\ "aria-label" \notin e.attrs /\ e.text = "",
                  Issue("error", "Button needs accessible text content or aria-label"))
        \* 227-258: lintFormElement
        lintFormElement(e) ==
            If(~some(e, {"form", "input", "field"}), Issue("info", "Form element could use MADE form classes"))
            \o If(~({"id", "labelled"} \subseteq e.attrs)
                  /\ e.attrs \cap {"aria-label", "aria-labelledby"} = {},
                  Issue("error", "Form element needs a label for accessibility"))
        \* 260-292: lintLink
        lintLink(e) ==
            If("href" \notin e.attrs, Issue("warning", "Link element should have href attribute"))
            \o If(e.text = "" /\ "aria-label" \notin e.attrs,
                  Issue("error", "Link needs accessible text content or aria-label"))
            \o If(e.text \in {"click here", "read more", "learn more", "here"},
                  Issue("warning", "Link text is not descriptive enough"))
        \* 294-314: lintImage
        lintImage(e) ==
            If("src" \notin e.attrs, Issue("error", "Image element must have src attribute"))
            \o If("alt" \notin e.attrs,
                  Issue("error", "Image element must have alt attribute for accessibility"))
        \* 110-137: lintElement
        lintElement(e) ==
            checkMADEClasses(e) \o checkCSSVariables(e.uses)
            \o (CASE e.tag = "button" -> lintButton(e)
                  [] e.tag \in {"input", "textarea", "select"} -> lintFormElement(e)
                  [] e.tag = "a" -> lintLink(e)
                  [] e.tag = "img" -> lintImage(e)
                  [] OTHER -> <<>>)
        RECURSIVE Flat(_)
        Flat(lists) == IF lists = <<>> THEN <<>> ELSE Head(lists) \o Flat(Tail(lists))
        Each(els, rule(_)) == Flat([i \in 1..Len(els) |-> rule(els[i])])
        withClass(e, names) == \E i \in 1..Len(e.classes) : e.classes[i] \in names
        \* 316-346: lintMADEPatterns
        cards(e) == If(/\ withClass(e, {"card", "panel", "box"})
                       /\ ~\E i \in 1..Len(e.classes) : StartsWith(e.classes[i], "made-"),
                       Issue("info", "Card-like component could use MADE card classes"))
        modals(e) == If(/\ withClass(e, {"modal", "dialog", "overlay"})
                        /\ e.attrs \cap {"role", "aria-modal"} = {},
                        Issue("error", "Modal/dialog should have proper ARIA attributes"))
        \* 348-371: lintAccessibility, for the markup used here (no headings, no style that
        \* removes the outline)
        images(e) == If(e.tag = "img" /\ "alt" \notin e.attrs, Issue("error", "Image missing alt attribute"))
        els == Parsed(html)
    IN IF fails
       THEN <<Issue("error", "Failed to parse HTML")>>
       ELSE If(~\E i \in 1..Len(els) :
                  els[i].tag \in {"main", "article", "section", "header", "footer", "nav", "aside"},
               Issue("warning", "Consider using semantic HTML elements"))
            \o Each(els, lintElement) \o Each(els, cards) \o Each(els, modals) \o Each(els, images)

\* copilot-test-prompts.md 699-738: generateLintSuggestions
generateLintSuggestions(issues) ==
    LET count(type) == Len(SelectSeq(issues, LAMBDA i : i.type = type))
        about(sub) == \E k \in 1..Len(issues) : Includes(issues[k].message, sub)
    IN (IF count("error") > 0 THEN <<<<"Fix error(s)", count("error")>>>> ELSE <<>>)
       \o (IF count("warning") > 0 THEN <<<<"Consider addressing warning(s)", count("warning")>>>> ELSE <<>>)
       \o (IF about("missing MADE class") THEN <<<<"Add appropriate MADE CSS classes", 0>>>> ELSE <<>>)
       \o (IF about("accessibility") THEN <<<<"Add ARIA attributes and labels", 0>>>> ELSE <<>>)

\* ------------------------------------------------------- MADEMCPServer
\* copilot-test-prompts.md 466-475: initialize() ensures the two data directories and calls
\* loadIndexes on the server's manager; a directory that cannot be made raises (494-496)
ServerInitBegin ==
    /\ srv.pc = "idle" /\ op.kind = "idle"
    /\ IF dirOk
       THEN /\ cacheDir' = TRUE
            /\ op' = [Idle EXCEPT !.kind = "load", !.m = "server", !.pc = "ensureDir",
                                  !.caller = "initialize", !.pre = View("server")]
            /\ srv' = [srv EXCEPT !.pc = "load"]
       ELSE srv' = [srv EXCEPT !.raised = TRUE] /\ UNCHANGED <<cacheDir, op>>
    /\ UNCHANGED <<objs, initialized, disk, dirOk, last, clock, imports, muts, faults>>

\* copilot-test-prompts.md 477-492: loadIndexes has returned; the search engine, the linter
\* and the scaffolder are given copies of the lists, and the server is initialized
ServerInitEnd ==
    /\ srv.pc = "load" /\ last.kind = "load" /\ last.caller = "initialize" /\ op.kind = "idle"
    /\ initialized' = TRUE
    /\ srv' = [srv EXCEPT !.pc = "idle", !.ok = TRUE,
                           !.engine = [components |-> View("server").components,
                                       tokens |-> View("server").tokens],
                           !.scaffolder = View("server").components]
    /\ UNCHANGED <<objs, disk, dirOk, cacheDir, op, last, clock, imports, muts, faults>>

\* ensureInitialized without its test
ensureInitialized_off == TRUE
\* copilot-test-prompts.md 499-503: ensureInitialized: passes when initialized is set
ensureInitialized == initialized

\* the error ensureInitialized raises, as the result of the query
NotInitialized(kind, arg) ==
    [NoReply EXCEPT !.kind = kind, !.arg = arg, !.out = "not-initialized", !.ready = srv.ok]
\* a query's result, before its references are filled in
Answer(kind, arg, out) ==
    [NoReply EXCEPT !.kind = kind, !.arg = arg, !.out = out, !.ready = srv.ok]
\* the step of a query: reply is the result, nothing else of the program changes
Return(h, rp) ==
    /\ Commit(h, tokens, components, indexMeta, rp, held)
    /\ UNCHANGED <<initialized, srv, disk, dirOk, cacheDir, op, last, clock, imports, muts, faults>>

\* getTokens returning the manager's own array
getTokens_live(h, m) == [h |-> h, id |-> tokens[m]]
\* index-manager.ts 288-290: getTokens: [...this.tokens]
getTokens(h, m) == CopyArray(h, tokens[m])
\* index-manager.ts 292-294: getComponents: [...this.components]
getComponents(h, m) == CopyArray(h, components[m])
\* index-manager.ts 296-298: getIndexMeta: this.indexMeta
getIndexMeta(m) == indexMeta[m]

\* Array.prototype.filter: a new array of the elements whose category is the scope
FilterTokens(h, a, scope) ==
    LET keep == {i \in SeqToSet(h[a].e) : h[i].category = scope}
    IN [h |-> Alloc(h, ArrObj(SelectSeq2(h[a].e, keep))), id |-> NewId(h)]

\* the scope argument: left out (undefined), the empty string, or a category name
NoScope == "(undefined)"
Scopes == {NoScope, "", "color", "other", "spacing"}
\* listTokens filtering the manager's own array in place
listTokens_inplace(scope) ==
    IF ~ensureInitialized THEN Return(heap, NotInitialized("listTokens", scope))
    ELSE LET a == tokens["server"]
             keep == {i \in SeqToSet(heap[a].e) : heap[i].category = scope}
             h == IF scope # NoScope /\ scope # ""
                  THEN [heap EXCEPT ![a] = ArrObj(SelectSeq2(heap[a].e, keep))] ELSE heap
         IN Return(h, [Answer("listTokens", scope, "ok")
                         EXCEPT !.tokens = a, !.total = Len(heap[a].e),
                                !.filtered = Len(h[a].e)])
\* copilot-test-prompts.md 505-520: listTokens(scope)
listTokens(scope) ==
    IF ~ensureInitialized THEN Return(heap, NotInitialized("listTokens", scope))
    ELSE LET all == getTokens(heap, "server")
             res == IF scope # NoScope /\ scope # "" THEN FilterTokens(all.h, all.id, scope)
                    ELSE all
         IN Return(res.h, [Answer("listTokens", scope, "ok")
                             EXCEPT !.tokens = res.id, !.total = Len(all.h[all.id].e),
                                    !.filtered = Len(res.h[res.id].e)])

\* copilot-test-prompts.md 522-537: listComponents: a new list of new objects
listComponents ==
    IF ~ensureInitialized THEN Return(heap, NotInitialized("listComponents", ""))
    ELSE LET res == AllocArray(heap, DeepArr(heap, components["server"]))
         IN Return(res.h, [Answer("listComponents", "", "ok") EXCEPT !.components = res.id])

\* Array.prototype.find with comp.name.toLowerCase() === name.toLowerCase(): the index of
\* the first match, 0 when there is none
RECURSIVE FindFrom_exact(_, _, _)
\* a find that compares the names as they are
FindFrom_exact(cs, name, i) ==
    IF i > Len(cs) THEN 0
    ELSE IF cs[i].name = name THEN i ELSE FindFrom_exact(cs, name, i + 1)
RECURSIVE FindFrom(_, _, _)
FindFrom(cs, name, i) ==
    IF i > Len(cs) THEN 0
    ELSE IF LowerName(cs[i].name) = LowerName(name) THEN i ELSE FindFrom(cs, name, i + 1)
FindComponent(cs, name) == FindFrom(cs, name, 1)

QueryNames == {"button", "BUTTON", "cARD", "Nope"}
\* `Component '${name}' not found`
NotFound(name) == <<"Component '", name, "' not found">>
\* copilot-test-prompts.md 539-564: getComponent(name): a new object for the component found
getComponent(name) ==
    IF ~ensureInitialized THEN Return(heap, NotInitialized("getComponent", name))
    ELSE LET cs == DeepArr(heap, components["server"])
             i == FindComponent(cs, name)
         IN IF i = 0 THEN Return(heap, [Answer("getComponent", name, "not-found")
                                          EXCEPT !.msg = NotFound(name)])
            ELSE LET res == AllocArray(heap, <<cs[i]>>)
                 IN Return(res.h, [Answer("getComponent", name, "ok") EXCEPT !.components = res.id])

\* copilot-test-prompts.md 566-581: scaffoldComponent(name)
scaffoldComponent(name) ==
    IF ~ensureInitialized THEN Return(heap, NotInitialized("scaffoldComponent", name))
    ELSE LET cs == DeepArr(heap, components["server"])
             i == FindComponent(cs, name)
         IN IF i = 0
            THEN Return(heap, [Answer("scaffoldComponent", name, "not-found")
                                 EXCEPT !.msg = NotFound(name)])
            ELSE Return(heap, [Answer("scaffoldComponent", name, "ok")
                                 EXCEPT !.scaffolded = <<cs[i]>>])

\* copilot-test-prompts.md 583-595: searchExamples(query)
searchExamples(query) ==
    IF ~ensureInitialized THEN Return(heap, NotInitialized("searchExamples", query))
    ELSE Return(heap, Answer("searchExamples", query, "ok"))

\* lintMarkup calling valid only what has no issue at all
lintMarkup_strict(html) ==
    IF ~ensureInitialized THEN Return(heap, NotInitialized("lintMarkup", html))
    ELSE \E fails \in BOOLEAN :
           LET issues == lint(html, View("server").tokens, fails)
           IN Return(heap, [Answer("lintMarkup", html, "ok") EXCEPT
                              !.input = <<fails>>,
                              !.body = [valid |-> issues = <<>>,
                                        issues |-> issues,
                                        suggestions |-> generateLintSuggestions(issues)]])

\* copilot-test-prompts.md 597-607: lintMarkup(html); input records whether load(html)
\* threw
lintMarkup(html) ==
    IF ~ensureInitialized THEN Return(heap, NotInitialized("lintMarkup", html))
    ELSE \E fails \in BOOLEAN :
           LET issues == lint(html, View("server").tokens, fails)
           IN Return(heap, [Answer("lintMarkup", html, "ok") EXCEPT
                              !.input = <<fails>>,
                              !.body = [valid |-> SelectSeq(issues, LAMBDA i : i.type = "error") = <<>>,
                                        issues |-> issues,
                                        suggestions |-> generateLintSuggestions(issues)]])

\* copilot-test-prompts.md 687-697: the server's getIndexMeta: index-meta.json as read from
\* ./data, null when the file is absent or cannot be read
ServerGetIndexMeta == IF disk.meta.st = "ok" THEN disk.meta.v ELSE NoMeta

\* an entry of checks[]
Check(name, pass) == [name |-> name, status |-> IF pass THEN "pass" ELSE "fail"]
\* a text, or a build time
Text(str) == [is |-> "text", s |-> str]
Time(n) == [is |-> "time", n |-> n]

\* copilot-test-prompts.md 609-667: the response of healthCheck, fs.access("./data/indexes")
\* having succeeded or not
HealthResponse(acc) ==
    LET checks == <<Check("indexes_loaded", TRUE), Check("data_directory", acc),
                    Check("initialization", initialized)>>
        hasFailures == \E i \in 1..Len(checks) : checks[i].status = "fail"
        indexMeta0 == ServerGetIndexMeta
    IN [Answer("healthCheck", "", IF hasFailures THEN "unhealthy" ELSE "healthy")
          EXCEPT !.checks = checks,
                 !.info = <<[version |-> "1.0.0",
                             upstreamVersion |-> IF indexMeta0 = NoMeta THEN Text("(undefined)")
                                                 ELSE Text(indexMeta0.upstreamRef),
                             lastSync |-> IF indexMeta0 = NoMeta THEN Text("(undefined)")
                                          ELSE Time(indexMeta0.buildTime)]>>]

\* a healthCheck that starts with ensureInitialized, as the queries do
healthCheck_guarded ==
    IF ~ensureInitialized THEN Return(heap, NotInitialized("healthCheck", ""))
    ELSE \E acc \in (IF dirOk THEN BOOLEAN ELSE {FALSE}) : Return(heap, HealthResponse(acc))

\* copilot-test-prompts.md 609-667: healthCheck(); ./data/indexes is there or not, and is not
\* when it cannot be made
healthCheck ==
    \E acc \in (IF dirOk THEN BOOLEAN ELSE {FALSE}) : Return(heap, HealthResponse(acc))

\* the record version() returns in place of a missing meta (buildTime 0 for "unknown")
UnknownMeta == MetaObj("unknown", "unknown", 0, 0, 0)
\* copilot-test-prompts.md 669-685: version()
version ==
    LET indexMeta0 == ServerGetIndexMeta
        known == indexMeta0 # NoMeta
    IN Return(heap, [Answer("version", "", "ok")
                       EXCEPT !.info = <<[server |-> "1.0.0",
                                          upstream |-> IF known /\ indexMeta0.upstreamRef # ""
                                                       THEN Text(indexMeta0.upstreamRef)
                                                       ELSE Text("unknown"),
                                          lastSync |-> IF known THEN Time(indexMeta0.buildTime)
                                                       ELSE Text("never"),
                                          indexMeta |-> IF known THEN indexMeta0
                                                        ELSE UnknownMeta]>>])

\* --------------------------------------------- the caller of a manager
\* a call of getTokens()
CallGetTokens(m) ==
    LET res == getTokens(heap, m)
    IN Return(res.h, [NoReply EXCEPT !.kind = "getTokens", !.m = m, !.out = "ok",
                                     !.tokens = res.id])
\* a call of getComponents()
CallGetComponents(m) ==
    LET res == getComponents(heap, m)
    IN Return(res.h, [NoReply EXCEPT !.kind = "getComponents", !.m = m, !.out = "ok",
                                     !.components = res.id])
\* a call of getIndexMeta()
CallGetIndexMeta(m) ==
    Return(heap, [NoReply EXCEPT !.kind = "getIndexMeta", !.m = m, !.out = "ok",
                                 !.meta = getIndexMeta(m)])

\* an export that leaves the meta out
exportIndexes_nometa(m) ==
    LET t == getTokens(heap, m)
        c == getComponents(t.h, m)
    IN Return(c.h, [NoReply EXCEPT !.kind = "exportIndexes", !.m = m, !.out = "ok",
                                   !.tokens = t.id, !.components = c.id])

\* index-manager.ts 363-373: exportIndexes: the three accessors' results in one object
exportIndexes(m) ==
    LET t == getTokens(heap, m)
        c == getComponents(t.h, m)
    IN Return(c.h, [NoReply EXCEPT !.kind = "exportIndexes", !.m = m, !.out = "ok",
                                   !.tokens = t.id, !.components = c.id,
                                   !.meta = getIndexMeta(m)])

\* the caller keeps a list it was given, to compare it with a later one
\* (const result1 = await server.listTokens())
Keep ==
    /\ reply.kind \in {"listTokens", "listComponents"} /\ reply.out = "ok"
    /\ Commit(heap, tokens, components, indexMeta, NoReply, reply)
    /\ UNCHANGED <<initialized, srv, disk, dirOk, cacheDir, op, last, clock, imports, muts, faults>>

\* files given to the import command: an export without meta, and a full one
DataNoMeta == [tokens |-> <<Token(<<"made", "c">>, "3")>>, components |-> <<CmpObj("Card", 9)>>,
               meta |-> NoMeta]
DataFull == [tokens |-> <<>>, components |-> <<CmpObj("Button", 8)>>,
             meta |-> MetaObj("v2", "def456", 0, 1, 0)]
ImportData == {DataNoMeta, DataFull}

\* index-manager.ts 376-381: importIndexes(data): the three fields become data's own
\* objects, and saveIndexes starts
importIndexes(h, m, data, from) ==
    /\ op.kind = "idle"
    /\ imports < MaxImports
    /\ Commit(h, [tokens EXCEPT ![m] = data.tokens], [components EXCEPT ![m] = data.components],
              [indexMeta EXCEPT ![m] = data.meta], reply, held)
    /\ op' = [Idle EXCEPT !.kind = "import", !.m = m, !.pc = "saveDir", !.caller = from,
                          !.pre = View(m)]
    /\ imports' = imports + 1
    /\ UNCHANGED <<initialized, srv, disk, dirOk, cacheDir, last, clock, muts, faults>>

\* build-index.ts 312-313: the import command: data = await fs.readJson(importPath), then
\* importIndexes(data)
ImportFile(m, d) ==
    LET t == AllocArray(heap, d.tokens)
        c == AllocArray(t.h, d.components)
        i == NewId(c.h)
    IN importIndexes(IF d.meta = NoMeta THEN c.h ELSE Alloc(c.h, d.meta), m,
                     [tokens |-> t.id, components |-> c.id,
                      meta |-> IF d.meta = NoMeta THEN NullRef ELSE i], "readJson")

\* importIndexes(await exportIndexes()): the data is the export the caller was just given
ImportExported(m) ==
    /\ reply.kind = "exportIndexes" /\ reply.m = m
    /\ importIndexes(heap, m, reply,
                     IF reply.stale \/ reply.touched THEN "old export" ELSE "exportIndexes")

\* what a caller does to a list it was given: result.components.push({} as any)
Pushed(which) == IF which = "tokens" THEN Token(<<"made", "x">>, "0") ELSE CmpObj("X", 0)
Push(which) ==
    /\ reply[which] # NullRef
    /\ muts < MaxMutations
    /\ muts' = muts + 1
    /\ LET i == NewId(heap)
       IN Commit([Alloc(heap, Pushed(which)) EXCEPT ![reply[which]].e = Append(@, i)],
                 tokens, components, indexMeta, [reply EXCEPT !.touched = TRUE], held)
    /\ UNCHANGED <<initialized, srv, disk, dirOk, cacheDir, op, last, clock, imports, faults>>

\* ... and result.tokens.pop()
Pop(which) ==
    /\ reply[which] # NullRef
    /\ muts < MaxMutations
    /\ muts' = muts + 1
    /\ Len(heap[reply[which]].e) > 0
    /\ Commit([heap EXCEPT ![reply[which]].e = SubSeq(@, 1, Len(@) - 1)],
              tokens, components, indexMeta, [reply EXCEPT !.touched = TRUE], held)
    /\ UNCHANGED <<initialized, srv, disk, dirOk, cacheDir, op, last, clock, imports, faults>>

\* ... and to an object it was given: result.tokens[0].value = ..., meta.upstreamRef = ...
SetField(which) ==
    /\ reply[which] # NullRef
    /\ muts < MaxMutations
    /\ muts' = muts + 1
    /\ \/ /\ which = "meta"
          /\ Commit([heap EXCEPT ![reply.meta].upstreamRef = "x"],
                    tokens, components, indexMeta, [reply EXCEPT !.touched = TRUE], held)
       \/ /\ which = "tokens" /\ Len(heap[reply.tokens].e) > 0
          /\ Commit([heap EXCEPT ![heap[reply.tokens].e[1]].value = "x"],
                    tokens, components, indexMeta, [reply EXCEPT !.touched = TRUE], held)
       \/ /\ which = "components" /\ Len(heap[reply.components].e) > 0
          /\ Commit([heap EXCEPT ![heap[reply.components].e[1]].name = "X"],
                    tokens, components, indexMeta, [reply EXCEPT !.touched = TRUE], held)
    /\ UNCHANGED <<initialized, srv, disk, dirOk, cacheDir, op, last, clock, imports, faults>>

\* ------------------------------------------------------ specifications
\* the steps of the index manager and of the server's start
Lifecycle ==
    \/ \E ref \in Refs, commit \in Commits : BuildBegin("script", ref, commit)
    \/ \E f \in SpecTokenFiles : BuildParseFile(f)
    \/ BuildSetTokens
    \/ BuildScanFails
    \/ \E s \in SpecStoryFiles : BuildParseStory(s)
    \/ BuildSetComponents
    \/ BuildSetMeta
    \/ SaveEnsureDir
    \/ SaveMeta
    \/ SaveTokens
    \/ SaveComponents
    \/ SaveCache
    \/ ServerInitBegin
    \/ LoadBegin("script", "direct")
    \/ LoadEnsureDir
    \/ LoadIndexMeta
    \/ LoadTokens
    \/ LoadComponents
    \/ ServerInitEnd

\* the index manager and the server's start, under every filesystem
Next ==
    \/ Lifecycle
    \/ \E d \in ImportData : ImportFile("script", d)

Spec == Init /\ [][Next]_vars

\* what the build of one token file (a color token and another one) and two story files,
\* at ref main, left in ./data
DiskBuilt ==
    LET toks == ParseTokenFile(<<>>, JsonMix)
        cmps == ParseStoryFile(ParseStoryFile(<<>>, Story(1, "Button", 1, FALSE)),
                               Story(3, "Card", 1, FALSE))
    IN [meta |-> Json(MetaObj("main", "abc123", 1, Len(cmps), Len(toks))),
        tokens |-> Json(toks), components |-> Json(cmps),
        cache |-> Json([components |-> [i \in 1..Len(cmps) |-> LowerName(cmps[i].name)],
                        tokens |-> [i \in 1..Len(toks) |-> toks[i].name]])]

\* the server process and its callers: it starts over an empty ./data or over what a
\* build left there, and nothing writes to ./data while it runs
InitServer == Start({DiskEmpty, DiskBuilt}) /\ faults = 0

NextServer ==
    \/ ServerInitBegin
    \/ LoadEnsureDir
    \/ LoadIndexMeta
    \/ LoadTokens
    \/ LoadComponents
    \/ ServerInitEnd
    \/ \E scope \in {NoScope, "other"} : listTokens(scope)
    \/ listComponents
    \/ \E name \in {"button", "Nope"} : getComponent(name)
    \/ \E name \in {"button", "Nope"} : scaffoldComponent(name)
    \/ searchExamples("button")
    \/ lintMarkup("<button>")
    \/ Keep
    \/ \E which \in {"tokens", "components"} : Push(which)
    \/ \E which \in {"tokens", "components"} : Pop(which)
    \/ \E which \in {"tokens", "components"} : SetField(which)

SpecServer == InitServer /\ [][NextServer]_vars

\* what a build left in ./data, index-meta.json having been damaged since
DiskTorn == [DiskBuilt EXCEPT !.meta = Corrupt(NoMeta)]
InitQuery == Start({DiskEmpty, DiskBuilt, DiskTorn}) /\ faults = 0

\* the server and one caller that only asks, with every argument of the fixtures
NextQuery ==
    \/ ServerInitBegin
    \/ LoadEnsureDir
    \/ LoadIndexMeta
    \/ LoadTokens
    \/ LoadComponents
    \/ ServerInitEnd
    \/ \E scope \in Scopes : listTokens(scope)
    \/ listComponents
    \/ \E name \in QueryNames : getComponent(name)
    \/ \E name \in QueryNames : scaffoldComponent(name)
    \/ searchExamples("button")
    \/ \E html \in Markups : lintMarkup(html)
    \/ healthCheck
    \/ version

SpecQuery == InitQuery /\ [][NextQuery]_vars

\* a manager and the program that calls it, over a filesystem that works
InitAlias == Init /\ dirOk /\ cacheDir /\ faults = 0

NextAlias ==
    \/ \E ref \in Refs, commit \in Commits : BuildBegin("script", ref, commit)
    \/ BuildParseFile(CssA)
    \/ BuildSetTokens
    \/ BuildScanFails
    \/ BuildParseStory(Story(1, "Button", 1, FALSE))
    \/ BuildSetComponents
    \/ BuildSetMeta
    \/ SaveEnsureDir
    \/ SaveMeta
    \/ SaveTokens
    \/ SaveComponents
    \/ SaveCache
    \/ CallGetTokens("script")
    \/ CallGetComponents("script")
    \/ CallGetIndexMeta("script")
    \/ exportIndexes("script")
    \/ ImportExported("script")
    \/ \E which \in {"tokens", "components"} : Push(which)
    \/ \E which \in {"tokens", "components"} : Pop(which)
    \/ \E which \in {"tokens", "components", "meta"} : SetField(which)

SpecAlias == InitAlias /\ [][NextAlias]_vars

\* one manager building over every tree of the fixtures, over a filesystem that works
InitBuild == Init /\ dirOk /\ cacheDir /\ faults = 0

NextBuild ==
    \/ \E ref \in Refs, commit \in Commits : BuildBegin("script", ref, commit)
    \/ \E f \in TokenFiles : BuildParseFile(f)
    \/ BuildSetTokens
    \/ BuildScanFails
    \/ \E s \in StoryFiles : BuildParseStory(s)
    \/ BuildSetComponents
    \/ BuildSetMeta
    \/ SaveEnsureDir
    \/ SaveMeta
    \/ SaveTokens
    \/ SaveComponents
    \/ SaveCache

SpecBuild == InitBuild /\ [][NextBuild]_vars

\* -------------------------------------------------- ComponentScaffolder
\* A class is a sequence of words: made-btn-primary is <<"made", "btn", "primary">>, and
\* made-btn--active is <<"made", "btn", "", "active">>.

\* A component as the scaffolder reads it: its name, the tag and the classes of the element
\* its htmlScaffold holds, its variants (axis -> allowed values), its props and cssClasses
Widget(name, tag, classes, variants, cssClasses) ==
    [name |-> name, tag |-> tag, classes |-> classes, variants |-> variants,
     props |-> {}, cssClasses |-> cssClasses]
Widgets ==
    LET BothAxes == [variant |-> {"primary", "secondary"}, size |-> {"sm", "lg"}]
    IN {Widget("Button", "button", << <<"made", "btn">> >>, BothAxes, {<<"made", "btn">>}),
        Widget("Card", "div", << <<"made", "card">> >>, BothAxes, {<<"made", "card">>}),
        Widget("Alert", "div", << <<"made", "alert">> >>, [variant |-> {"primary", "secondary"}],
               {<<"made", "alert">>}),
        [Widget("Badge", "span", << <<"made", "badge">> >>, BothAxes, {}) EXCEPT !.props = {"tone"}],
        \* a Button whose first example is its primary variant
        Widget("Button", "button", << <<"made", "btn">>, <<"made", "btn", "primary">> >>,
               BothAxes, {<<"made", "btn">>})}

\* the entries of a prop bag, <<key, value, typeof value>>, and the bags: Object.entries
\* gives the keys in the order the caller wrote them, each key once
PropEntries == {<<"variant", "primary", "string">>, <<"variant", "secondary", "string">>,
                <<"size", "sm", "string">>, <<"size", "lg", "string">>,
                <<"className", "custom", "string">>, <<"disabled", "true", "boolean">>,
                <<"tone", "loud", "string">>, <<"tone", "{}", "object">>,
                <<"ariaLabel", "Close", "string">>, <<"role", "switch", "string">>}
MaxProps == 2
PropBags ==
    {b \in UNION {[1..n -> PropEntries] : n \in 0..MaxProps} :
        \A i, j \in 1..Len(b) : i # j => b[i][1] # b[j][1]}

\* component-scaffolder.ts 308-340: getVariantClass
getVariantClass(componentName, variantName, variantValue) ==
    LET lower == LowerName(componentName)
        baseClass == CASE lower = "button" -> <<"made", "btn">>
                       [] lower = "card" -> <<"made", "card">>
                       [] lower = "alert" -> <<"made", "alert">>
                       [] OTHER -> <<"made", lower>>
    IN CASE variantName \in {"variant", "color"} -> Append(baseClass, variantValue)
         [] variantName = "size" -> Append(baseClass, variantValue)
         [] variantName = "state" -> baseClass \o <<"", variantValue>>
         [] OTHER -> baseClass \o <<variantName, variantValue>>

\* component-scaffolder.ts 342-363: isVariantClass
isVariantClass(className, componentName, variantName) ==
    LET baseClass == <<"made", LowerName(componentName)>>
        cls == Str(className)
    IN CASE variantName \in {"variant", "color"} ->
              /\ StartsWith(cls, Str(baseClass \o <<"">>))
              /\ ~Includes(cls, Str(<<"", "size", "">>))
              /\ ~Includes(cls, Str(<<"", "", "">>))
         [] variantName = "size" ->
              /\ Includes(cls, Str(baseClass \o <<"">>))
              /\ \/ Includes(cls, Str(<<"", "sm">>))
                 \/ Includes(cls, Str(<<"", "lg">>))
                 \/ Includes(cls, Str(<<"", "xl">>))
         [] variantName = "state" -> StartsWith(cls, Str(baseClass \o <<"", "">>))
         [] OTHER -> StartsWith(cls, Str(baseClass \o <<variantName, "">>))

\* component-scaffolder.ts 77-100: applyVariant on the element (its classes, the attributes
\* set on it and the notes made so far): the classes of this axis are removed, the new one
\* is pushed
applyVariant(el, component, variantName, variantValue) ==
    LET variantClass == getVariantClass(component.name, variantName, variantValue)
        cleanedClasses == SelectSeq(el.classes,
                                    LAMBDA c : ~isVariantClass(c, component.name, variantName))
    IN [el EXCEPT !.classes = Append(cleanedClasses, variantClass),
                  !.notes = Append(@, <<"applied", variantName, variantValue>>)]

\* component-scaffolder.ts 102-164: applyProp: the switch on the prop's name (text and
\* children change the text only)
applyProp(el, tag, propName, propValue, type) ==
    LET attr(name, value) == [el EXCEPT !.attrs = Append(@, <<name, value>>)]
    IN CASE propName = "id" -> attr("id", propValue)
         [] propName \in {"className", "class"} -> [el EXCEPT !.classes = Append(@, <<propValue>>)]
         [] propName \in {"text", "children"} -> el
         [] propName = "href" -> IF tag = "a" THEN attr("href", propValue) ELSE el
         [] propName = "type" -> IF tag \in {"button", "input"} THEN attr("type", propValue) ELSE el
         [] propName = "disabled" ->
               IF propValue \notin {"", "false", "0"}
                  /\ tag \in {"button", "input", "select", "textarea"}
               THEN [el EXCEPT !.attrs = Append(@, <<"disabled", "true">>),
                               !.classes = IF \E i \in 1..Len(@) : @[i] = <<"disabled">>
                                           THEN @ ELSE Append(@, <<"disabled">>)]
               ELSE el
         [] propName = "placeholder" ->
               IF tag \in {"input", "textarea"} THEN attr("placeholder", propValue) ELSE el
         [] propName = "value" ->
               IF tag \in {"input", "textarea", "select"} THEN attr("value", propValue) ELSE el
         [] propName = "ariaLabel" -> attr("aria-label", propValue)
         [] propName = "role" -> attr("role", propValue)
         [] OTHER -> IF type \in {"string", "number"}
                     THEN [el EXCEPT !.attrs = Append(@, <<"data-" \o ToLowerCase(propName), propValue>>),
                                     !.notes = Append(@, <<"custom", propName, propValue>>)]
                     ELSE el

\* component-scaffolder.ts 48-75: applyProps: the entries of the bag, in order
RECURSIVE applyProps(_, _, _)
applyProps(el, props, component) ==
    IF props = <<>> THEN el
    ELSE LET propName == Head(props)[1]
             propValue == Head(props)[2]
             KnownProps == {"text", "children", "id", "className", "class", "href", "type",
                            "disabled", "placeholder", "value"}
             next == IF propName \in DOMAIN component.variants
                        /\ propValue \in component.variants[propName]
                     THEN applyVariant(el, component, propName, propValue)
                     ELSE IF propName \in component.props \/ propName \in KnownProps
                     THEN applyProp(el, component.tag, propName, propValue, Head(props)[3])
                     ELSE [el EXCEPT !.notes = Append(@, <<"unknown", propName, propValue>>)]
         IN applyProps(next, Tail(props), component)

\* component-scaffolder.ts 280-306: getEssentialClasses
getEssentialClasses(component, el) ==
    LET baseClass == <<"made", LowerName(component.name)>>
        hasBtn == \E i \in 1..Len(el.classes) : Includes(Str(el.classes[i]), Str(<<"made", "btn">>))
        essential == <<baseClass>>
                     \o (CASE component.tag = "button" /\ ~hasBtn -> << <<"made", "btn">> >>
                           [] component.tag \in {"input", "textarea", "select"} ->
                                 << <<"made", "form", "control">> >>
                           [] component.tag = "nav" -> << <<"made", "nav">> >>
                           [] OTHER -> <<>>)
    IN SelectSeq(essential, LAMBDA c : c \in component.cssClasses)

\* component-scaffolder.ts 249-278: optimizeClasses on the element: the class attribute is
\* split at the two characters \s (it holds none, so it stays whole), and an essential
\* class that is not the whole attribute is put in front
optimizeClasses(el, component) ==
    LET RECURSIVE Unshift(_, _)
        Unshift(parts, essential) ==
            IF essential = <<>> THEN parts
            ELSE Unshift(IF \E i \in 1..Len(parts) : parts[i] = <<Head(essential)>>
                         THEN parts ELSE << <<Head(essential)>> >> \o parts,
                         Tail(essential))
        RECURSIVE Flat(_)
        Flat(parts) == IF parts = <<>> THEN <<>> ELSE Head(parts) \o Flat(Tail(parts))
        whole == IF el.classes = <<>> THEN <<>> ELSE <<el.classes>>
    IN [el EXCEPT !.classes = Flat(Unshift(whole, getEssentialClasses(component, el)))]

\* component-scaffolder.ts 15-46: scaffold(component, props): the classes of the target
\* element of the markup returned, and the notes (addAccessibilityFeatures leaves the
\* classes alone)
ScaffoldResult(component, props) ==
    optimizeClasses(applyProps([classes |-> component.classes, attrs |-> <<>>, notes |-> <<>>],
                               props, component),
                    component)

scaffold(component, props) ==
    /\ reply' = [NoReply EXCEPT !.kind = "scaffold", !.arg = component.name, !.out = "ok",
                                !.scaffolded = <<component>>, !.input = props,
                                !.body = ScaffoldResult(component, props)]
    /\ UNCHANGED <<heap, tokens, components, indexMeta, initialized, srv, held, disk, dirOk,
                   cacheDir, op, last, clock, imports, muts, faults>>

\* ----------------------------------------------------------- SearchEngine
\* A component as the search engine reads it: examples are <<title, html>> pairs, and
\* htmlScaffold is the markup of the first one
Found(name, description, cssClasses, examples) ==
    [name |-> name, description |-> description, tags |-> <<>>, cssClasses |-> cssClasses,
     variants |-> <<>>, htmlScaffold |-> examples[1][2], examples |-> examples]
\* the indexes the engine is initialized with, in the order the build found the stories, and
\* the queries put to it: the name of every component, and two other ones
SearchIndexes ==
    LET Button == Found("Button", "A button", <<"made-btn">>,
                        << <<"Primary", "<button class=\"made-btn\">Go</button>">> >>)
        Card == Found("Card", "A surface", <<"made-card">>,
                      << <<"Default", "<div class=\"made-card\"></div>">> >>)
        Checkbox == Found("Checkbox", "A tick", <<"made-checkbox">>,
                          << <<"Default", "<input class=\"made-checkbox\">">> >>)
        BoxNew == Found("Box (New)", "A frame", <<"made-box">>,
                        << <<"Default", "<div class=\"made-box\"></div>">> >>)
        \* a component of fifty examples, and one whose second example is a markup of more
        \* than a thousand characters
        Grid == Found("Grid", "A lattice", <<"made-grid">>,
                      [j \in 1..50 |-> <<"Cell", "<div class=\"made-grid\"></div>">>])
        Twice(s) == s \o s
        Rows == Twice(Twice(Twice(Twice(Twice(Twice(Twice("<p>table</p>")))))))
        Table == Found("Table", "A sheet", <<"made-table">>,
                       << <<"Empty", "<table></table>">>, <<"Full", "<table>" \o Rows \o "</table>">>,
                          <<"Head", "<table><th></th></table>">> >>)
    IN {<<Button, Card, Checkbox, BoxNew>>, <<Checkbox, Button, Card>>, <<Grid>>, <<Table, Card>>}
SearchQueries == {"Button", "Card", "Checkbox", "Box (New)", "the", "go",
                  "create primary button", "Card card", "Grid", "Table"}

\* part_004 59-66: isStopWord
isStopWord(word) ==
    word \in {"the", "and", "or", "but", "for", "with",
              "a", "an", "as", "at", "by", "in",
              "of", "on", "to", "create", "make",
              "build", "generate", "show", "display", "use",
              "using", "want", "need", "component",
              "element", "html", "css", "class", "style",
              "design", "system"}

\* part_004 47-57: extractSearchTerms: every character outside a-z, 0-9, backslash, s and -
\* becomes a space; the string is cut at each backslash followed by one or more s; the
\* pieces of more than two characters that are no stop words are kept, each once
extractSearchTerms(query) ==
    LET kept == "abcdefghijklmnopqrstuvwxyz0123456789\\-"
        RECURSIVE Clean(_)
        Clean(s) == IF s = "" THEN ""
                    ELSE (IF Includes(kept, At(s, 1)) THEN At(s, 1) ELSE " ") \o Clean(Tail(s))
        cleaned == Clean(ToLowerCase(query))
        RECURSIVE SkipS(_)
        SkipS(i) == IF i <= Len(cleaned) /\ At(cleaned, i) = "s" THEN SkipS(i + 1) ELSE i
        RECURSIVE Split(_, _, _)
        Split(i, cur, done) ==
            IF i > Len(cleaned) THEN Append(done, cur)
            ELSE IF Substring(cleaned, i, i + 1) = "\\s"
                 THEN Split(SkipS(i + 1), "", Append(done, cur))
                 ELSE Split(i + 1, cur \o At(cleaned, i), done)
        pieces == SelectSeq(Split(1, "", <<>>), LAMBDA t : Len(t) > 2 /\ ~isStopWord(t))
        first == SelectSeq2([i \in 1..Len(pieces) |-> i],
                            {j \in 1..Len(pieces) : \A k \in 1..(j - 1) : pieces[k] # pieces[j]})
    IN [i \in 1..Len(first) |-> pieces[first[i]]]

\* part_004 307-343: fuzzyMatch / calculateSimilarity / levenshteinDistance: the similarity
\* of the two strings is at least 0.7
fuzzyMatch(text, query) ==
    LET longer == IF Len(text) > Len(query) THEN text ELSE query
        shorter == IF Len(text) > Len(query) THEN query ELSE text
        Min(x, y) == IF x < y THEN x ELSE y
        \* matrix[j], the row of the first j characters of str2 = shorter, from matrix[j - 1];
        \* a row and each cell are values before the next is computed from them
        RECURSIVE Row(_)
        Row(j) ==
            IF j = 0 THEN [i \in 1..(Len(longer) + 1) |-> i - 1]
            ELSE CHOOSE row \in
                   {LET RECURSIVE Fill(_, _)
                        Fill(i, acc) ==
                            IF i > Len(longer) THEN acc
                            ELSE CHOOSE r \in
                                   {Fill(i + 1, Append(acc, cell)) :
                                      cell \in {Min(Min(acc[i] + 1, prev[i + 1] + 1),
                                                    prev[i] + (IF At(longer, i) = At(shorter, j) THEN 0 ELSE 1))}} :
                                   TRUE
                    IN Fill(1, <<j>>) : prev \in {Row(j - 1)}} : TRUE
        editDistance == Row(Len(shorter))[Len(longer) + 1]
    IN /\ Len(query) >= 3
       /\ \/ Len(longer) = 0
          \/ 10 * (Len(longer) - editDistance) >= 7 * Len(longer)

\* part_004 190-235: detectUIPatterns
detectUIPatterns(query) ==
    LET uiPatternMap ==
          << <<"button", {"button", "btn", "click", "action", "submit"}>>,
             <<"card", {"card", "panel", "container", "box"}>>,
             <<"modal", {"modal", "dialog", "popup", "overlay"}>>,
             <<"form", {"form", "input", "field", "text", "submit"}>>,
             <<"navigation", {"nav", "menu", "navbar", "link"}>>,
             <<"alert", {"alert", "notification", "message", "toast"}>>,
             <<"grid", {"grid", "layout", "columns", "rows"}>>,
             <<"table", {"table", "data", "rows", "columns"}>>,
             <<"tabs", {"tabs", "tab", "switch", "toggle"}>>,
             <<"accordion", {"accordion", "collapse", "expand", "fold"}>>,
             <<"dropdown", {"dropdown", "select", "menu", "options"}>>,
             <<"tooltip", {"tooltip", "popover", "hover", "hint"}>>,
             <<"badge", {"badge", "label", "tag", "chip"}>>,
             <<"avatar", {"avatar", "profile", "user", "image"}>>,
             <<"breadcrumb", {"breadcrumb", "path", "navigation"}>>,
             <<"pagination", {"pagination", "pager", "pages", "next", "previous"}>>,
             <<"progress", {"progress", "bar", "loading", "status"}>>,
             <<"spinner", {"spinner", "loading", "wait", "busy"}>>,
             <<"carousel", {"carousel", "slider", "gallery", "slideshow"}>>,
             <<"chart", {"chart", "graph", "data", "visualization"}>> >>
        has(w) == Includes(query, w)
        mapped == SelectSeq(uiPatternMap, LAMBDA e : \E keyword \in e[2] : has(keyword))
    IN [i \in 1..Len(mapped) |-> mapped[i][1]]
       \o (IF has("dark") \/ has("theme") THEN <<"themeable">> ELSE <<>>)
       \o (IF has("responsive") \/ has("mobile") THEN <<"responsive">> ELSE <<>>)
       \o (IF has("icon") \/ has("symbol") THEN <<"icon">> ELSE <<>>)

\* part_004 237-291: componentMatchesPattern
componentMatchesPattern(component, pattern) ==
    LET componentName == ToLowerCase(component.name)
        componentTags == ToLowerCase(Join(component.tags, " "))
        componentClasses == ToLowerCase(Join(component.cssClasses, " "))
        name(w) == Includes(componentName, w)
        tags(w) == Includes(componentTags, w)
        classes(w) == Includes(componentClasses, w)
    IN CASE pattern = "button" -> name("button") \/ name("btn") \/ classes("btn")
         [] pattern = "card" -> name("card") \/ tags("card") \/ classes("card")
         [] pattern = "modal" -> name("modal") \/ name("dialog") \/ tags("overlay")
         [] pattern = "form" -> name("form") \/ name("input") \/ tags("form")
         [] pattern = "navigation" -> name("nav") \/ name("menu") \/ tags("navigation")
         [] pattern = "alert" -> name("alert") \/ name("notification") \/ tags("feedback")
         [] pattern = "themeable" -> classes("dark") \/ classes("light")
         [] pattern = "responsive" ->
              classes("responsive") \/ classes("sm") \/ classes("md") \/ classes("lg")
         [] pattern = "icon" -> name("icon") \/ classes("icon")
         [] OTHER -> name(pattern) \/ tags(pattern)

\* part_004 117-155: findMatches
findMatches(component, terms, query) ==
    LET searchableText ==
          ToLowerCase(Join(<<component.name, component.description>> \o component.tags
                             \o component.cssClasses \o component.variants, " "))
        uiPatterns == detectUIPatterns(query)
    IN (IF Includes(searchableText, query) THEN <<"exact_match">> ELSE <<>>)
       \o SelectSeq(terms, LAMBDA term : Includes(searchableText, term))
       \o (IF fuzzyMatch(ToLowerCase(component.name), query) THEN <<"fuzzy_name">> ELSE <<>>)
       \o SelectSeq(uiPatterns, LAMBDA pattern : componentMatchesPattern(component, pattern))

\* part_004 157-188 and 293-305: findExampleMatches / htmlContainsPattern
findExampleMatches(example, terms, query) ==
    LET searchableText == ToLowerCase(Join(<<example[1], "", example[2]>>, " "))
        lowerHtml == ToLowerCase(example[2])
        q(w) == Includes(query, w)
        h(w) == Includes(lowerHtml, w)
        htmlContainsPattern ==
            \/ q("button") /\ h("<button")
            \/ q("form") /\ (h("<form") \/ h("<input"))
            \/ q("link") /\ h("<a ")
            \/ q("image") /\ h("<img")
            \/ q("list") /\ (h("<ul") \/ h("<ol"))
            \/ q("table") /\ h("<table")
    IN (IF Includes(searchableText, query) THEN <<"exact_match">> ELSE <<>>)
       \o SelectSeq(terms, LAMBDA term : Includes(searchableText, term))
       \o (IF htmlContainsPattern THEN <<"html_pattern">> ELSE <<>>)

calculateRelevance_longToo(result, terms) ==
    LET lowerTitle == ToLowerCase(result.title)
        lowerHtml == ToLowerCase(result.html)
        n(keep(_)) == Len(SelectSeq(terms, keep))
    IN (IF \E i \in 1..Len(terms) : StartsWith(lowerTitle, terms[i]) THEN 10 ELSE 0)
       + 5 * n(LAMBDA term : Includes(lowerTitle, term))
       + 2 * n(LAMBDA term : Includes(lowerHtml, term))
       + (IF Includes(result.title, "Component") /\ ~Includes(result.title, ":")
          THEN 3 ELSE 0)
       + (IF Len(result.html) > 0 THEN 1 ELSE 0)

\* part_004 345-380: calculateRelevance
calculateRelevance(result, terms) ==
    LET lowerTitle == ToLowerCase(result.title)
        lowerHtml == ToLowerCase(result.html)
        n(keep(_)) == Len(SelectSeq(terms, keep))
    IN (IF \E i \in 1..Len(terms) : StartsWith(lowerTitle, terms[i]) THEN 10 ELSE 0)
       + 5 * n(LAMBDA term : Includes(lowerTitle, term))
       + 2 * n(LAMBDA term : Includes(lowerHtml, term))
       + (IF Includes(result.title, "Component") /\ ~Includes(result.title, ":")
          THEN 3 ELSE 0)
       + (IF Len(result.html) > 0 /\ Len(result.html) < 1000 THEN 1 ELSE 0)

\* part_004 23-45 and 68-115: search / searchComponents / searchExamples: the results of
\* the components, then those of the examples, sorted by relevance (Array.prototype.sort
\* keeps the order of equals), the first fifty
SearchResults(cs, query) ==
    LET lowerQuery == ToLowerCase(query)
        terms == extractSearchTerms(lowerQuery)
        Result(c, title, html) == [component |-> c.name, title |-> title, html |-> html]
        RECURSIVE ofComponents(_)
        ofComponents(i) ==
            IF i > Len(cs) THEN <<>>
            ELSE (IF findMatches(cs[i], terms, lowerQuery) # <<>>
                  THEN <<Result(cs[i], cs[i].name \o " Component",
                                IF cs[i].examples # <<>> THEN cs[i].examples[1][2]
                                ELSE cs[i].htmlScaffold)>>
                  ELSE <<>>) \o ofComponents(i + 1)
        \* the results of the examples of one component, then of the next
        matching(c) ==
            SelectSeq(c.examples, LAMBDA example : findExampleMatches(example, terms, lowerQuery) # <<>>)
        RECURSIVE ofExamples(_)
        ofExamples(i) ==
            IF i > Len(cs) THEN <<>>
            ELSE [j \in 1..Len(matching(cs[i])) |->
                    Result(cs[i], cs[i].name \o ": " \o matching(cs[i])[j][1], matching(cs[i])[j][2])]
                 \o ofExamples(i + 1)
        results == ofComponents(1) \o ofExamples(1)
        \* the sort: each result goes behind those of a higher score and behind the
        \* earlier ones of its own score
        Sorted(rs, score) ==
            LET place(k) == 1 + Cardinality({l \in 1..Len(rs) :
                                               \/ score[l] > score[k]
                                               \/ score[l] = score[k] /\ l < k})
            IN [p \in 1..Len(rs) |-> rs[CHOOSE k \in 1..Len(rs) : place(k) = p]]
        \* the results and their scores are values before the sort reads them
        ranked == CHOOSE sorted \in
                    UNION {{Sorted(rs, score) :
                              score \in {[k \in 1..Len(rs) |-> calculateRelevance(rs[k], terms)]}} :
                           rs \in {results}} : TRUE
    IN SubSeq(ranked, 1, IF Len(ranked) < 50 THEN Len(ranked) ELSE 50)

search(cs, query) ==
    /\ reply' = [NoReply EXCEPT !.kind = "search", !.arg = query, !.out = "ok",
                                !.input = cs, !.body = SearchResults(cs, query)]
    /\ UNCHANGED <<heap, tokens, components, indexMeta, initialized, srv, held, disk, dirOk,
                   cacheDir, op, last, clock, imports, muts, faults>>

\* ------------------------------------------------------- calls of CSSParser
\* part_005 166-194: whether parseMadeCSSVariables (kind "vars"), parseMadeTokensJSON
\* ("json") or parseMadeCSS ("main") raises on the file: the error of the read or of the
\* parse is thrown again, but for a stylesheet of variables whose error says 'property
\* missing'
Raises(f) ==
    /\ f.err # "none"
    /\ ~(f.kind = "vars" /\ Includes(f.err, "property missing"))

\* the files a parser is called with: those of the trees, a stylesheet with an unclosed
\* rule, and two paths where no file is
ParserFiles ==
    TokenFiles \cup {[kind |-> "vars", err |-> "missing '}'", decls |-> <<>>],
                     [kind |-> "vars", err |-> "ENOENT: no such file or directory", decls |-> <<>>],
                     [kind |-> "json", err |-> "ENOENT: no such file or directory", decls |-> <<>>]}

\* one call of the parser that holds the tokens `existing`, on the file f
parse(existing, f) ==
    /\ reply' = [NoReply EXCEPT !.kind = "parse", !.arg = f.kind,
                                !.out = IF Raises(f) THEN "raised" ELSE "ok",
                                !.input = <<existing, f>>,
                                !.body = ParseTokenFile(existing, f)]
    /\ UNCHANGED <<heap, tokens, components, indexMeta, initialized, srv, held, disk, dirOk,
                   cacheDir, op, last, clock, imports, muts, faults>>

\* the names categorizeToken is called with: names of the design system's kinds, names
\* that several rules match, a JSON key as written, and names no rule matches
TokenNames ==
    {<<"made", "color", "primary", "500">>, <<"made", "color", "spacing">>,
     <<"made", "text", "color">>, <<"made", "text", "red">>, <<"made", "text", "lg">>,
     <<"made", "bg", "shadow">>, <<"made", "border", "radius", "sm">>,
     <<"made", "space", "4">>, <<"made", "size", "12">>, <<"made", "size", "2", "x">>,
     <<"made", "size", "lg">>, <<"made", "font", "size", "16">>,
     <<"made", "letter", "spacing">>, <<"made", "line", "height">>,
     <<"made", "font", "weight", "bold">>, <<"made", "shadow", "fast">>,
     <<"made", "elevation", "1">>, <<"made", "radius", "sm">>, <<"made", "rounded", "screen">>,
     <<"made", "duration", "layer">>, <<"made", "z", "index", "modal">>,
     <<"made", "layer", "1">>, <<"made", "breakpoint", "md">>, <<"made", "screen", "sm">>,
     <<"Made", "Shadow", "Color">>, <<"made", "a">>, <<"made", "2", "x">>}

\* one call of categorizeToken
categorize(tokenName) ==
    /\ reply' = [NoReply EXCEPT !.kind = "categorize", !.out = "ok", !.input = tokenName,
                                !.body = categorizeToken(tokenName)]
    /\ UNCHANGED <<heap, tokens, components, indexMeta, initialized, srv, held, disk, dirOk,
                   cacheDir, op, last, clock, imports, muts, faults>>

\* ------------------------------------------------- calls of StorybookParser
\* part_005 785-832: extractVariants. `declared` are the controls of argTypes that list
\* options, <<propName, options>> in the order of the file; `stories` are, for each
\* example whose story is found, the quoted args <<key, value>> of the story. An axis of
\* argTypes gets its options (a later control of the same name replaces the earlier);
\* then every key of the args that has more than one value gets the values seen, in the
\* order first seen, in place of what the axis had.
extractVariants(declared, stories) ==
    LET fromArgTypes(a) ==
            declared[CHOOSE i \in 1..Len(declared) :
                        /\ declared[i][1] = a
                        /\ \A k \in (i + 1)..Len(declared) : declared[k][1] # a][2]
        RECURSIVE Flat(_)
        Flat(i) == IF i > Len(stories) THEN <<>> ELSE stories[i] \o Flat(i + 1)
        args == Flat(1)
        ofKey(key) == SelectSeq(args, LAMBDA arg : arg[1] = key)
        \* argValues[key], a Set: each value once, in the order of insertion
        argValues(key) ==
            LET seen == ofKey(key)
                firsts == {j \in 1..Len(seen) : \A k \in 1..(j - 1) : seen[k][2] # seen[j][2]}
            IN [n \in 1..Cardinality(firsts) |->
                  seen[CHOOSE j \in firsts : Cardinality({k \in firsts : k <= j}) = n][2]]
        several == {key \in {args[i][1] : i \in 1..Len(args)} : Len(argValues(key)) > 1}
    IN [a \in {declared[i][1] : i \in 1..Len(declared)} \cup several |->
          IF a \in several THEN argValues(a) ELSE fromArgTypes(a)]

\* the argTypes and the stories of the files parsed: no control, one or two, with one
\* option or two; no story, one or two, each with no quoted arg, one or two
VariantControls ==
    LET Controls == {<<"variant", <<"primary", "secondary">> >>, <<"variant", <<"primary">> >>,
                     <<"size", <<"sm", "lg">> >>, <<"size", <<"md">> >>}
    IN UNION {[1..n -> Controls] : n \in 0..2}
StoryArgs ==
    LET Args == {<<>>, << <<"variant", "primary">> >>, << <<"variant", "secondary">> >>,
                 << <<"variant", "ghost">> >>, << <<"size", "lg">> >>,
                 << <<"variant", "primary">>, <<"size", "sm">> >>}
    IN UNION {[1..n -> Args] : n \in 0..2}

\* one call of extractVariants
variantsOf(declared, stories) ==
    /\ reply' = [NoReply EXCEPT !.kind = "variants", !.out = "ok",
                                !.input = <<declared, stories>>,
                                !.body = extractVariants(declared, stories)]
    /\ UNCHANGED <<heap, tokens, components, indexMeta, initialized, srv, held, disk, dirOk,
                   cacheDir, op, last, clock, imports, muts, faults>>

\* ------------------------------------------------------ calls of the parts
\* the parser, the scaffolder and the search engine, each made anew as the tests make
\* them and called once with an argument of the fixtures
NextCalls ==
    \/ \E component \in Widgets, props \in PropBags :
          reply = NoReply /\ scaffold(component, props)
    \/ \E cs \in SearchIndexes, query \in SearchQueries :
          reply = NoReply /\ search(cs, query)
    \/ \E g \in {CssA, JsonMix}, f \in ParserFiles :
          reply = NoReply /\ parse(ParseTokenFile(<<>>, g), f)
    \/ \E tokenName \in TokenNames :
          reply = NoReply /\ categorize(tokenName)
    \/ \E declared \in VariantControls, stories \in StoryArgs :
          reply = NoReply /\ variantsOf(declared, stories)

SpecCalls == InitBuild /\ [][NextCalls]_vars

\* ---------------------------------------------------------------- claims
QueryKinds == {"listTokens", "listComponents", "getComponent", "scaffoldComponent",
               "searchExamples", "lintMarkup"}
NoRefs(r) == r.tokens = NullRef /\ r.components = NullRef /\ r.meta = NullRef

\* C1: a query made while no initialize() has returned (none was called, or the one called
\* raised) raises the not-initialized error and gives no result, whichever of the six
\* queries it is.
C1_NotInitialized ==
    (reply.kind \in QueryKinds /\ ~reply.ready)
        => (reply.out = "not-initialized" /\ NoRefs(reply))
\* a query was refused on a server whose only initialize() raised
C1_RefusedAfterRaise ==
    /\ srv.raised /\ ~srv.ok
    /\ reply.kind = "scaffoldComponent" /\ reply.out = "not-initialized"

ListingKinds == {"listTokens", "listComponents", "searchExamples"}
\* C2: when nothing was ever loaded or built (initialize() ran over an empty ./data and the
\* server's manager holds nothing), listTokens, listComponents and searchExamples raise
\* the not-initialized error; none of them returns an empty result.
C2_NoEmptySuccess ==
    (reply.kind \in ListingKinds /\ ~reply.stale /\ disk = DiskEmpty
        /\ View("server") = EmptyView)
        => reply.out = "not-initialized"

\* the positions of a build or an import inside saveIndexes: the three fields are assigned
SavePcs == {"saveDir", "saveMeta", "saveTokens", "saveComponents", "saveCache"}
\* C3: at every suspension point of a running buildIndexes, what getTokens, getComponents
\* and getIndexMeta return together is the dataset as it was before the build or the
\* dataset the build ends with, never something in between.
C3_ReaderSeesWhole ==
    op.kind = "build" => (View(op.m) = op.pre \/ op.pc \in SavePcs)

\* what the accessors of manager m show after the step
ViewNext(m) == [tokens     |-> DeepArr(heap', tokens'[m]),
                components |-> DeepArr(heap', components'[m]),
                meta       |-> DeepRef(heap', indexMeta'[m])]
\* the step in which a call of the given kind returns or raises
Ends(kind) == op.kind = kind /\ op'.kind = "idle"

\* C4: when a buildIndexes returns, whatever the manager held before (from an import or a
\* load), its tokens and components are exactly those the build's parsers produced from
\* the tree, the token names are exactly the names the tree's files declare, and the meta
\* is a new record with the ref and the commit given to the build and the counts of the
\* two lists.
C4_FullReplace ==
    [][(Ends("build") /\ last'.status = "ok")
          => /\ ViewNext(op.m).tokens = op.ptokens
             /\ ViewNext(op.m).components = op.pcomps
             /\ Names(ViewNext(op.m).tokens) = op.decl
             /\ ViewNext(op.m).meta
                  = MetaObj(op.ref, op.commit, clock, Len(op.pcomps), Len(op.ptokens))]_vars
\* a build returned on a manager that had imported a token the tree does not declare
C4_BuiltAfterImport ==
    /\ last.kind = "build" /\ last.status = "ok" /\ op.kind = "idle" /\ imports = 1
    /\ disk.tokens = Json(View("script").tokens)
    /\ Len(View("script").tokens) = 2 /\ Len(View("script").components) = 2

\* C8: when a build or an import has returned, a loadIndexes on a manager that holds
\* nothing yet, over the same ./data, ends with the tokens, components and meta of the
\* manager that wrote them.
C8_LoadRoundTrip ==
    [][(Ends("load") /\ op.pre = EmptyView /\ last.kind \in {"build", "import"}
          /\ last.status = "ok" /\ last.m # op.m)
          => ViewNext(op.m) = View(last.m)]_vars

\* C9: loadIndexes returns without raising, and when it ends on a failure (a directory that
\* cannot be made, an artifact that cannot be read) the manager shows what it showed
\* before the call.
C9_LoadAllOrNothing ==
    [][Ends("load") => /\ last'.status = "ok"
                       /\ last'.failed => ViewNext(op.m) = op.pre]_vars

\* C5: a step in which the caller changes something an accessor gave it (the list, a field
\* of one of its objects, a field of the meta record) changes nothing of what the accessors
\* of any manager show.
C5_AccessorsCopy ==
    [][(reply.kind \in {"getTokens", "getComponents", "getIndexMeta"} /\ muts' = muts + 1)
          => \A m \in Mgrs : ViewNext(m) = View(m)]_vars

\* the lists of a result, by value
Deep(h, r) == [tokens     |-> IF r.tokens = NullRef THEN <<>> ELSE DeepArr(h, r.tokens),
               components |-> IF r.components = NullRef THEN <<>> ELSE DeepArr(h, r.components)]
\* the list the result is about: its reference
ListOf(r) == IF r.kind = "listTokens" THEN r.tokens ELSE r.components
TwoLists ==
    /\ held.kind \in {"listTokens", "listComponents"} /\ reply.kind = held.kind
    /\ reply.arg = held.arg /\ reply.out = "ok"
\* C6: two results of listTokens (or of listComponents), the server's manager showing the
\* same at both calls and the caller having changed neither, are equal by value and are
\* two different lists; and a step in which
\* the caller appends to or removes from the later one changes neither the earlier one nor
\* what the server's manager shows, which is what a later call lists.
C6_ListsEqualAndDistinct ==
    /\ [](TwoLists /\ ~held.stale /\ ~held.touched /\ ~reply.touched
            => (ListOf(held) # ListOf(reply) /\ Deep(heap, held) = Deep(heap, reply)))
    /\ [][(TwoLists /\ muts' = muts + 1
               /\ Len(heap'[ListOf(reply')].e) # Len(heap[ListOf(reply)].e))
             => (Deep(heap', held') = Deep(heap, held)
                 /\ ViewNext("server") = View("server"))]_vars
\* listTokens was called twice on the built index and the caller appended to the second list
C6_SecondListPushed ==
    /\ TwoLists /\ held.kind = "listTokens" /\ ~held.stale /\ ~held.touched /\ reply.touched
    /\ Len(heap[reply.tokens].e) = 3 /\ Len(heap[held.tokens].e) = 2
    /\ Len(View("server").tokens) = 2

\* C7: when importIndexes is given what exportIndexes of the same manager just returned,
\* the manager shows, when the import returns, the tokens, components and meta it showed
\* before.
C7_ExportImport ==
    [][(Ends("import") /\ op.caller = "exportIndexes" /\ muts' = 0)
          => (last'.status = "ok" /\ ViewNext(op.m) = op.pre)]_vars
\* a built index with tokens, components and meta went through export and import
C7_Reimported ==
    /\ last.kind = "import" /\ last.caller = "exportIndexes" /\ last.status = "ok"
    /\ op.kind = "idle" /\ muts = 0
    /\ View("script").meta # NoMeta /\ View("script").tokens # <<>>
    /\ View("script").components # <<>>

NoDup(toks) == \A i, j \in 1..Len(toks) : i # j => toks[i].name # toks[j].name
\* C10: in a built index no two tokens have the same name.
C10_TokenNamesUnique ==
    /\ (op.kind = "build" /\ op.pc \in SavePcs) => NoDup(View(op.m).tokens)
    /\ (op.kind = "idle" /\ last.kind = "build") => NoDup(View(last.m).tokens)

\* C11: in a built index no two components have the same name.
C11_ComponentNamesUnique ==
    /\ (op.kind = "build" /\ op.pc \in SavePcs) => NoDup(View(op.m).components)
    /\ (op.kind = "idle" /\ last.kind = "build" /\ last.status = "ok")
          => NoDup(View(last.m).components)

\* C12: a token file, utility stylesheet or story file that fails to parse leaves the build
\* running with the parsers' tokens and components as they were; over a working filesystem
\* a build raises only when the scan for story files fails; a build that reaches the
\* end of its save over a working filesystem returns, the manager then holding the tokens
\* that the parseable files declared and a meta record, and ./data holding what the manager
\* shows.
C12_BadFilesSkipped ==
    [][/\ (op.kind = "build" /\ op'.bad > op.bad)
            => (op'.kind = "build" /\ op'.pc = op.pc
                /\ op'.ptokens = op.ptokens /\ op'.pcomps = op.pcomps)
       /\ (Ends("build") /\ last'.status = "raised") => last'.cause = "scan"
       /\ (Ends("build") /\ op.pc \in SavePcs)
            => /\ last'.status = "ok"
               /\ Names(ViewNext(op.m).tokens) = op.decl
               /\ ViewNext(op.m).meta # NoMeta
               /\ disk'.tokens = Json(ViewNext(op.m).tokens)
               /\ disk'.components = Json(ViewNext(op.m).components)
               /\ disk'.meta = Json(ViewNext(op.m).meta)]_vars
\* a build in which a file failed to parse has returned, with no token and no component
C12_EmptyBuildDone ==
    /\ op.kind = "idle" /\ last.kind = "build" /\ last.status = "ok" /\ last.failed
    /\ View("script").tokens = <<>> /\ View("script").components = <<>>
    /\ View("script").meta # NoMeta /\ View("script").meta.tokensCount = 0
    /\ disk.tokens = Json(<<>>) /\ disk.components = Json(<<>>)

\* Array.prototype.filter on values
RECURSIVE OfCategory(_, _)
OfCategory(toks, c) ==
    IF toks = <<>> THEN <<>>
    ELSE (IF Head(toks).category = c THEN <<Head(toks)>> ELSE <<>>) \o OfCategory(Tail(toks), c)
\* C13: a listTokens result, as returned, holds for a filter string c exactly the tokens of
\* the index whose category is c, in the index's order, with filteredCount their number and
\* totalCount the size of the index; with no filter it holds every token and the two counts
\* are equal.
C13_ListTokensFilter ==
    (reply.kind = "listTokens" /\ reply.out = "ok" /\ ~reply.stale /\ ~reply.touched) =>
        LET all == View("server").tokens
            got == DeepArr(heap, reply.tokens)
        IN /\ reply.total = Len(all)
           /\ reply.filtered = Len(got)
           /\ got = IF reply.arg = NoScope THEN all ELSE OfCategory(all, reply.arg)

\* the places of the components whose name is the given one but for letter case
Matches(cs, name) == {i \in 1..Len(cs) : LowerName(cs[i].name) = LowerName(name)}
\* C14: getComponent(n) and scaffoldComponent(n) answer with, respectively hand to the
\* scaffolder, the first component of the index whose name equals n but for letter case,
\* whatever the case of n; when there is none they raise a not-found error whose message
\* holds n as given, return nothing and do not call the scaffolder.
C14_CaseInsensitiveLookup ==
    (reply.kind \in {"getComponent", "scaffoldComponent"} /\ reply.ready /\ ~reply.stale
       /\ ~reply.touched) =>
        LET cs == View("server").components
            ms == Matches(cs, reply.arg)
            first == CHOOSE i \in ms : \A j \in ms : i <= j
        IN IF ms = {}
           THEN /\ reply.out = "not-found" /\ NoRefs(reply) /\ reply.scaffolded = <<>>
                /\ \E k \in 1..Len(reply.msg) : reply.msg[k] = reply.arg
           ELSE /\ reply.out = "ok"
                /\ reply.kind = "getComponent" => DeepArr(heap, reply.components) = <<cs[first]>>
                /\ reply.kind = "scaffoldComponent" => reply.scaffolded = <<cs[first]>>
\* Button was looked up in capitals in an index of two components, and found
C14_FoundInCapitals ==
    /\ reply.kind = "scaffoldComponent" /\ reply.arg = "BUTTON" /\ reply.out = "ok"
    /\ Len(reply.scaffolded) = 1 /\ reply.scaffolded[1].name = "Button"
    /\ Len(View("server").components) = 2

\* the six fields of an IndexMeta
IsIndexMeta(v) ==
    /\ DOMAIN v = {"k", "version", "upstreamCommit", "upstreamRef", "buildTime",
                   "componentsCount", "tokensCount"}
    /\ v.k = "meta"
\* C15: in every state of the server healthCheck and version can be called; what healthCheck
\* returned is a status with the three checks, each pass or fail, the status healthy exactly
\* when all three pass and the initialization check passing exactly when an initialize()
\* had returned; what version returned holds the server version, an upstream, a last sync
\* and a whole meta record, the persisted one when index-meta.json can be read.
C15_HealthAndVersion ==
    /\ ENABLED healthCheck
    /\ ENABLED version
    /\ reply.kind = "healthCheck" =>
          /\ reply.out \in {"healthy", "unhealthy"}
          /\ Len(reply.checks) = 3 /\ Len(reply.info) = 1
          /\ reply.info[1].version = "1.0.0"
          /\ [i \in 1..3 |-> reply.checks[i].name]
                = <<"indexes_loaded", "data_directory", "initialization">>
          /\ \A i \in 1..3 : reply.checks[i].status \in {"pass", "fail"}
          /\ reply.out = "healthy" <=> \A i \in 1..3 : reply.checks[i].status = "pass"
          /\ reply.checks[3].status = "pass" <=> reply.ready
    /\ reply.kind = "version" =>
          /\ reply.out = "ok" /\ Len(reply.info) = 1
          /\ reply.info[1].server = "1.0.0"
          /\ reply.info[1].upstream.is = "text" /\ reply.info[1].upstream.s # ""
          /\ IsIndexMeta(reply.info[1].indexMeta)
          /\ IF disk.meta.st = "ok"
             THEN /\ reply.info[1].indexMeta = disk.meta.v
                  /\ reply.info[1].lastSync = Time(disk.meta.v.buildTime)
             ELSE /\ reply.info[1].indexMeta = UnknownMeta
                  /\ reply.info[1].lastSync = Text("never")
\* healthCheck answered unhealthy after an initialize() that raised, over a damaged meta
C15_UnhealthyAfterFailedInit ==
    /\ reply.kind = "healthCheck" /\ reply.out = "unhealthy" /\ srv.raised /\ ~reply.ready
    /\ disk.meta.st = "corrupt" /\ reply.checks[3].status = "fail"

\* C16: for a component that declares a variant axis and a size axis, a scaffold whose prop
\* bag gives an allowed value for each, in either order of the keys, returns an element
\* that carries the class of the variant and the class of the size together.
HasClass(el, c) == \E i \in 1..Len(el.classes) : el.classes[i] = c
C16_BothAxisClasses ==
    (/\ reply.kind = "scaffold"
     /\ {"variant", "size"} \subseteq DOMAIN reply.scaffolded[1].variants
     /\ \E i, j \in 1..Len(reply.input) :
           /\ reply.input[i][1] = "variant"
           /\ reply.input[i][2] \in reply.scaffolded[1].variants["variant"]
           /\ reply.input[j][1] = "size"
           /\ reply.input[j][2] \in reply.scaffolded[1].variants["size"])
    => \A i \in 1..Len(reply.input) :
          reply.input[i][1] \in {"variant", "size"}
          => HasClass(reply.body, getVariantClass(reply.arg, reply.input[i][1], reply.input[i][2]))

\* C17: a search for the exact name of a component of the index returns that component's
\* own component-level result, and every result of another component that shares no term
\* with the query stands below it, whatever the name is.
RankOf(rs, name) ==
    IF \E k \in 1..Len(rs) : rs[k].title = name \o " Component"
    THEN CHOOSE k \in 1..Len(rs) : rs[k].title = name \o " Component"
    ELSE 0
SharesTerm(c, terms) ==
    \E i \in 1..Len(terms) :
       \/ Includes(ToLowerCase(Join(<<c.name, c.description>> \o c.cssClasses, " ")), terms[i])
       \/ \E j \in 1..Len(c.examples) :
             Includes(ToLowerCase(Join(c.examples[j], " ")), terms[i])
C17_ExactNameRanksFirst ==
    (reply.kind = "search" /\ \E i \in 1..Len(reply.input) : reply.input[i].name = reply.arg)
    => LET terms == extractSearchTerms(ToLowerCase(reply.arg))
           own == RankOf(reply.body, reply.arg)
       IN /\ own > 0
          /\ \A k \in 1..Len(reply.body), i \in 1..Len(reply.input) :
                (/\ reply.input[i].name = reply.body[k].component
                 /\ reply.input[i].name # reply.arg
                 /\ ~SharesTerm(reply.input[i], terms))
                => own < k

Readable(f) == ~StartsWith(f.err, "ENOENT")
C19_ParserRaisesOnlyIfUnreadable ==
    (reply.kind = "parse" /\ reply.arg \in {"vars", "json"} /\ Readable(reply.input[2]))
    => /\ reply.out = "ok"
       /\ \A i \in 1..Len(reply.input[1]) :
             \E j \in 1..Len(reply.body) : reply.body[j] = reply.input[1][i]

\* C20: categorizeToken gives every token name exactly one category, the same on every
\* call, and that category is the one of the earliest rule the name matches in the order
\* color, spacing, typography, shadow, radius, time, z-index or layer (other), breakpoint,
\* with other when no rule matches; a name containing "color" is therefore a color.
RuleOrder == <<"color", "spacing", "typography", "shadow", "radius", "time", "other",
               "breakpoint", "other">>
RuleWords ==
    <<{"color", "bg", "background", "border"},
      {"space", "spacing", "padding", "margin", "gap"},
      {"font", "text", "line-height", "letter-spacing", "weight"},
      {"shadow", "drop-shadow", "elevation"},
      {"radius", "border-radius", "rounded"},
      {"time", "duration", "transition", "animation", "slow", "fast", "moderate"},
      {"z-index", "zindex", "layer"},
      {"breakpoint", "screen", "container", "viewport"},
      {""}>>
RuleMatches(k, text) ==
    LET digits == {"0", "1", "2", "3", "4", "5", "6", "7", "8", "9"}
        n == Len(text)
    IN \/ \E w \in RuleWords[k] : Includes(text, w)
       \/ /\ k = 1
          /\ Includes(text, "text")
          /\ \E w \in {"red", "blue", "green", "yellow", "orange", "purple", "gray", "grey",
                       "white", "black", "teal", "gold"} : Includes(text, w)
       \/ /\ k = 2
          /\ Includes(text, "size")
          /\ \/ At(text, n) \in digits
             \/ n >= 3 /\ SubSeq(text, n - 1, n) = "-x" /\ At(text, n - 2) \in digits
C20_EarliestRuleWins ==
    reply.kind = "categorize"
    => LET text == ToLowerCase("--" \o Str(reply.input))
           first == CHOOSE k \in 1..9 :
                       RuleMatches(k, text) /\ \A j \in 1..(k - 1) : ~RuleMatches(j, text)
       IN /\ reply.body = RuleOrder[first]
          /\ reply.body = categorizeToken(reply.input)
          /\ Includes(text, "color") => reply.body = "color"

\* a name that the colour rule and a later rule both match has been categorized
C20_SeveralRulesMatch ==
    /\ reply.kind = "categorize"
    /\ reply.input = <<"made", "color", "spacing">>
    /\ RuleMatches(1, "--made-color-spacing")
    /\ RuleMatches(2, "--made-color-spacing")
    /\ reply.body = "color"

\* C21: a step of listTokens, listComponents, getComponent, scaffoldComponent,
\* searchExamples or lintMarkup, in whatever order they are called, leaves the tokens, the
\* components and the meta of the server's IndexManager as they were, and so the lists the
\* search engine and the scaffolder were given, the initialized flag and the files.
QueryStep ==
    \/ \E scope \in Scopes : listTokens(scope)
    \/ listComponents
    \/ \E name \in QueryNames : getComponent(name)
    \/ \E name \in QueryNames : scaffoldComponent(name)
    \/ searchExamples("button")
    \/ \E html \in Markups : lintMarkup(html)
C21_QueriesChangeNothing ==
    [][QueryStep => /\ ViewNext("server") = View("server")
                    /\ ViewNext("script") = View("script")
                    /\ srv' = srv /\ initialized' = initialized /\ disk' = disk]_vars

\* a list of fewer tokens than the manager holds has been returned, and the manager and
\* the search engine still hold them all
C21_FilteredListReturned ==
    /\ reply.kind = "listTokens" /\ reply.out = "ok" /\ reply.filtered < reply.total
    /\ Len(View("server").tokens) = reply.total
    /\ srv.engine.tokens = View("server").tokens
    /\ srv.scaffolder = View("server").components /\ srv.scaffolder # <<>>

\* C22: when the last prop scaffold applies names a declared variant axis and one of its
\* allowed values, the target element carries afterwards exactly one of the classes of
\* that axis (the classes getVariantClass gives for the values of the axis), whatever
\* classes it carried before, for every component, Button included.
AxisClasses(component, axis) ==
    {getVariantClass(component.name, axis, v) : v \in component.variants[axis]}
C22_OneClassPerAxis ==
    (/\ reply.kind = "scaffold" /\ reply.input # <<>>
     /\ reply.input[Len(reply.input)][1] \in DOMAIN reply.scaffolded[1].variants
     /\ reply.input[Len(reply.input)][2]
           \in reply.scaffolded[1].variants[reply.input[Len(reply.input)][1]])
    => LET component == reply.scaffolded[1]
           axis == reply.input[Len(reply.input)][1]
           value == reply.input[Len(reply.input)][2]
           ofAxis == {i \in 1..Len(reply.body.classes) :
                         reply.body.classes[i] \in AxisClasses(component, axis)}
       IN /\ Cardinality(ofAxis) = 1
          /\ \E i \in ofAxis :
                reply.body.classes[i] = getVariantClass(component.name, axis, value)

\* C23: scaffold with one prop that is no valid variant assignment: ariaLabel and role
\* are set as the attributes aria-label and role; a prop that is none of text, children,
\* id, class, className, href, type, disabled, placeholder, value, ariaLabel, role becomes
\* the attribute data-<key> with a note when its value is a string or a number, and
\* otherwise leaves a warning note and the element as scaffold without props gives it.
InSeq(x, seq) == \E i \in 1..Len(seq) : seq[i] = x
C23_PropDispatch ==
    (/\ reply.kind = "scaffold" /\ Len(reply.input) = 1
     /\ ~(/\ reply.input[1][1] \in DOMAIN reply.scaffolded[1].variants
          /\ reply.input[1][2] \in reply.scaffolded[1].variants[reply.input[1][1]]))
    => LET key == reply.input[1][1]
           value == reply.input[1][2]
           type == reply.input[1][3]
           bare == ScaffoldResult(reply.scaffolded[1], <<>>)
       IN /\ key = "ariaLabel" => InSeq(<<"aria-label", value>>, reply.body.attrs)
          /\ key = "role" => InSeq(<<"role", value>>, reply.body.attrs)
          /\ key \notin {"text", "children", "id", "class", "className", "href", "type",
                         "disabled", "placeholder", "value", "ariaLabel", "role"}
             => IF type \in {"string", "number"}
                THEN /\ InSeq(<<"data-" \o ToLowerCase(key), value>>, reply.body.attrs)
                     /\ InSeq(<<"custom", key, value>>, reply.body.notes)
                ELSE /\ InSeq(<<"unknown", key, value>>, reply.body.notes)
                     /\ reply.body.attrs = bare.attrs /\ reply.body.classes = bare.classes

\* C24: after scaffold the target element has no class twice and no blank class, and the
\* classes the optimization pass put in front of those the props left are classes of the
\* component's cssClasses.
C24_ClassesOptimized ==
    reply.kind = "scaffold"
    => LET component == reply.scaffolded[1]
           pre == applyProps([classes |-> component.classes, attrs |-> <<>>, notes |-> <<>>],
                             reply.input, component).classes
           post == reply.body.classes
           added == Len(post) - Len(pre)
       IN /\ \A i, j \in 1..Len(post) : i # j => post[i] # post[j]
          /\ \A i \in 1..Len(post) : Str(post[i]) # ""
          /\ added >= 0 /\ SubSeq(post, added + 1, Len(post)) = pre
          /\ \A i \in 1..added : post[i] \in component.cssClasses

\* C25: the terms search extracts from a query are the distinct lowercase alphanumeric
\* words of the query that have more than two characters and are no stop words, one term
\* for each such word and never the phrase as one term.
QualifyingWords(query) ==
    LET lower == ToLowerCase(query)
        RECURSIVE Words(_, _, _)
        Words(i, cur, done) ==
            IF i > Len(lower) THEN done \cup {cur}
            ELSE IF Includes("abcdefghijklmnopqrstuvwxyz0123456789", At(lower, i))
                 THEN Words(i + 1, cur \o At(lower, i), done)
                 ELSE Words(i + 1, "", done \cup {cur})
    IN {w \in Words(1, "", {}) : Len(w) > 2 /\ ~isStopWord(w)}
C25_TermsAreQualifyingWords ==
    reply.kind = "search"
    => LET terms == extractSearchTerms(ToLowerCase(reply.arg))
       IN /\ {terms[i] : i \in 1..Len(terms)} = QualifyingWords(reply.arg)
          /\ \A i, j \in 1..Len(terms) : i # j => terms[i] # terms[j]

\* C26: the results of a search are the candidates in the order of their scores, the
\* highest first, where a result scores 10 if a term stands at the start of its title, 5
\* for each term in its title, 2 for each term in its markup, 3 if it is a component-level
\* result without a colon and 1 if its markup has under 1000 characters; results of the
\* same score stand in the order they were found, those of the components before those of
\* the examples; there are at most 50; the same call on the same index gives the same
\* sequence again.
StatedScore(r, terms) ==
    LET title == ToLowerCase(r.title)
        markup == ToLowerCase(r.html)
        Count(S) == Cardinality({i \in 1..Len(terms) : terms[i] \in S})
    IN (IF \E i \in 1..Len(terms) : StartsWith(title, terms[i]) THEN 10 ELSE 0)
       + 5 * Count({t \in {terms[i] : i \in 1..Len(terms)} : Includes(title, t)})
       + 2 * Count({t \in {terms[i] : i \in 1..Len(terms)} : Includes(markup, t)})
       + (IF Includes(r.title, "Component") /\ ~Includes(r.title, ":") THEN 3 ELSE 0)
       + (IF Len(r.html) < 1000 THEN 1 ELSE 0)
\* where the result was found: 0 for a component-level result and 1 for an example, then
\* the place of the component in the index, then the place of the example
FoundAt(cs, r) ==
    LET i == CHOOSE i \in 1..Len(cs) : cs[i].name = r.component
        level == Includes(r.title, "Component") /\ ~Includes(r.title, ":")
    IN IF level THEN <<0, i, 0>>
       ELSE <<1, i, CHOOSE j \in 1..Len(cs[i].examples) :
                       /\ r.title = cs[i].name \o ": " \o cs[i].examples[j][1]
                       /\ r.html = cs[i].examples[j][2]
                       /\ \A k \in 1..(j - 1) : cs[i].examples[k] # cs[i].examples[j]>>
NotAfter(a, b) ==
    \/ a[1] < b[1]
    \/ a[1] = b[1] /\ a[2] < b[2]
    \/ a[1] = b[1] /\ a[2] = b[2] /\ a[3] <= b[3]
DeclaredOptions(axis) ==
    UNION {{c[2][k] : k \in 1..Len(c[2])} :
             c \in {reply.input[1][i] : i \in {i \in 1..Len(reply.input[1]) :
                                                 reply.input[1][i][1] = axis}}}
SeenValues(axis) ==
    {a[2] : a \in {arg \in UNION {{reply.input[2][i][j] : j \in 1..Len(reply.input[2][i])} :
                                    i \in 1..Len(reply.input[2])} : arg[1] = axis}}
C27_AxesMergedAndPlural ==
    reply.kind = "variants"
    => /\ \A axis \in DOMAIN reply.body :
             LET values == {reply.body[axis][k] : k \in 1..Len(reply.body[axis])}
             IN /\ Cardinality(values) >= 2
                /\ values \subseteq DeclaredOptions(axis) \cup SeenValues(axis)
                /\ (DeclaredOptions(axis) # {} /\ Cardinality(SeenValues(axis)) >= 2)
                   => DeclaredOptions(axis) \subseteq values
       /\ \A axis \in {"variant", "size"} :
             Cardinality(DeclaredOptions(axis) \cup SeenValues(axis)) < 2
             => axis \notin DOMAIN reply.body

\* C28: when a buildIndexes raises, the tokens, components and meta of the manager are
\* what they were when the build was called.
C28_RaisedBuildChangesNothing ==
    [][(Ends("build") /\ last'.status = "raised") => ViewNext(op.m) = op.pre]_vars

\* C29: whenever the three artifacts of ./data/indexes can be read, the tokensCount and
\* the componentsCount of the persisted meta are the numbers of the persisted tokens and
\* components, also while a saveIndexes is under way and after one has failed.
C29_PersistedOneDataset ==
    (disk.meta.st = "ok" /\ disk.tokens.st = "ok" /\ disk.components.st = "ok")
    => /\ disk.meta.v.tokensCount = Len(disk.tokens.v)
       /\ disk.meta.v.componentsCount = Len(disk.components.v)

\* C30: whenever no call of a manager is in progress, no caller has changed a list it was
\* given, and the manager has a meta, the meta's tokensCount and componentsCount are the
\* numbers of the manager's tokens and components, also after calls that raised.
C30_MetaCountsInMemory ==
    (op.kind = "idle" /\ muts = 0)
    => \A m \in Mgrs :
          View(m).meta # NoMeta
          => /\ View(m).meta.tokensCount = Len(View(m).tokens)
             /\ View(m).meta.componentsCount = Len(View(m).components)

====
